---- MODULE Spec2Model ----
(***************************************************************************)
(* A model of the Hubbub HTML5 tokeniser (src/tokeniser/tokeniser.c) and   *)
(* of the parts of the tree builder that the verified properties concern.  *)
(*                                                                         *)
(* The input buffer is a sequence of bytes (integers 0..255); character    *)
(* codes are those of the C character literals in the source.  A span is   *)
(* the pair (off, len) of a byte offset and a byte length, as in           *)
(* hubbub_string.  Every state handler of the tokeniser is an operator     *)
(* from a machine record  [tok, inp, out, cont]  to the next one, where    *)
(* cont is the handler's return value; an action applies one handler, as   *)
(* one iteration of the dispatch loop of hubbub_tokeniser_run does.        *)
(***************************************************************************)
EXTENDS Integers, Sequences, FiniteSets, TLC

VARIABLES
    tok,        \* struct hubbub_tokeniser (state, content_model, context)
    inp,        \* the input stream: buffer, cursor, end-of-stream flag
    out,        \* the tokens delivered to the token handler, in order
    cont,       \* local `cont` of hubbub_tokeniser_run; FALSE between calls
    pending,    \* bytes of the document the embedder has not yet supplied
    orig,       \* the whole document, as chosen initially
    cm0,        \* the content model the parse started with
    chunk,      \* bytes the embedder supplies per call (0: all that is left)
    opts,       \* calls of hubbub_tokeniser_setopt made after the parse began
    last,       \* what the last step did: the handler run and its effect
    tb          \* struct hubbub_treebuilder, once the tokens reach a treebuilder

vars == <<tok, inp, out, cont, pending, orig, cm0, chunk, opts, last, tb>>

(***************************************************************************)
(* Character codes                                                         *)
(***************************************************************************)
Ord ==
    [c \in {"\t", "\n", " ", "!", "\"", "#", "&", "'", "-", "/", "0", "1",
            "2", "3", "4", "5", "6", "7", "8", "9", ";", "<", "=", ">", "?",
            "A", "B", "C", "D", "E", "F", "H", "L", "M", "O", "P", "R", "S",
            "T", "X", "Y", "Z", "a", "b", "c", "d", "e", "f", "h", "i", "l",
            "m", "o", "p", "r", "s", "t", "x", "y", "z"} |->
        CASE c = "\t" -> 9   [] c = "\n" -> 10  [] c = " " -> 32
          [] c = "!" -> 33   [] c = "\"" -> 34  [] c = "#" -> 35
          [] c = "&" -> 38   [] c = "'" -> 39   [] c = "-" -> 45
          [] c = "/" -> 47   [] c = "0" -> 48   [] c = "1" -> 49
          [] c = "2" -> 50   [] c = "3" -> 51   [] c = "4" -> 52
          [] c = "5" -> 53   [] c = "6" -> 54   [] c = "7" -> 55
          [] c = "8" -> 56   [] c = "9" -> 57   [] c = ";" -> 59
          [] c = "<" -> 60   [] c = "=" -> 61   [] c = ">" -> 62
          [] c = "?" -> 63   [] c = "A" -> 65   [] c = "B" -> 66
          [] c = "C" -> 67   [] c = "D" -> 68   [] c = "E" -> 69
          [] c = "F" -> 70   [] c = "H" -> 72   [] c = "L" -> 76
          [] c = "M" -> 77   [] c = "O" -> 79   [] c = "P" -> 80
          [] c = "R" -> 82   [] c = "S" -> 83   [] c = "T" -> 84
          [] c = "X" -> 88   [] c = "Y" -> 89   [] c = "Z" -> 90
          [] c = "a" -> 97   [] c = "b" -> 98   [] c = "c" -> 99
          [] c = "d" -> 100  [] c = "e" -> 101  [] c = "f" -> 102
          [] c = "h" -> 104  [] c = "i" -> 105  [] c = "l" -> 108
          [] c = "m" -> 109  [] c = "o" -> 111  [] c = "p" -> 112
          [] c = "r" -> 114  [] c = "s" -> 115  [] c = "t" -> 116
          [] c = "x" -> 120  [] c = "y" -> 121  [] c = "z" -> 122]

Ch(x) == Ord[x]

\* The bytes of a text given as a sequence of one-character strings.
Bytes(strs) == [i \in 1..Len(strs) |-> Ord[strs[i]]]

VT == 11
FF == 12

IsUpper(c) == c >= 65 /\ c <= 90
IsLower(c) == c >= 97 /\ c <= 122
IsDigit(c) == c >= 48 /\ c <= 57
IsSpace(c) == c = 9 \/ c = 10 \/ c = VT \/ c = FF \/ c = 32

\* c & ~0x20 on a codepoint; the stream's sentinels are left as they are.
ClearBit5(c) == IF c >= 0 /\ (c \div 32) % 2 = 1 THEN c - 32 ELSE c

ToLowerByte(b) == IF IsUpper(b) THEN b + 32 ELSE b
ToUpperByte(b) == IF IsLower(b) THEN b - 32 ELSE b

(***************************************************************************)
(* UTF-8, as the input stream stores codepoints                            *)
(***************************************************************************)
Utf8Len(cp) ==
    IF cp < 128 THEN 1 ELSE IF cp < 2048 THEN 2 ELSE IF cp < 65536 THEN 3 ELSE 4

Utf8Encode(cp) ==
    IF cp < 128 THEN <<cp>>
    ELSE IF cp < 2048 THEN <<192 + (cp \div 64), 128 + (cp % 64)>>
    ELSE IF cp < 65536 THEN
        <<224 + (cp \div 4096), 128 + ((cp \div 64) % 64), 128 + (cp % 64)>>
    ELSE <<240 + (cp \div 262144), 128 + ((cp \div 4096) % 64),
           128 + ((cp \div 64) % 64), 128 + (cp % 64)>>

\* Length of the UTF-8 sequence a lead byte announces.
LeadLen(b) ==
    IF b < 192 THEN 1 ELSE IF b < 224 THEN 2 ELSE IF b < 240 THEN 3 ELSE 4

Utf8Decode(bs) ==
    IF Len(bs) = 1 THEN bs[1]
    ELSE IF Len(bs) = 2 THEN (bs[1] - 192) * 64 + (bs[2] - 128)
    ELSE IF Len(bs) = 3 THEN
        (bs[1] - 224) * 4096 + (bs[2] - 128) * 64 + (bs[3] - 128)
    ELSE (bs[1] - 240) * 262144 + (bs[2] - 128) * 4096
            + (bs[3] - 128) * 64 + (bs[4] - 128)

(***************************************************************************)
(* The input stream (the contract of section 6.1 of the specification)     *)
(***************************************************************************)
EOF == -1
OOD == -2

\* Byte length of the character at the cursor (0 when there is none).
CurLen(s) ==
    LET b == s.inp.buf IN
    IF s.inp.cur >= Len(b) THEN 0
    ELSE IF s.inp.cur + LeadLen(b[s.inp.cur + 1]) > Len(b) THEN 0
    ELSE LeadLen(b[s.inp.cur + 1])

Peek(s) ==
    IF CurLen(s) = 0
    THEN IF s.inp.eof THEN EOF ELSE OOD
    ELSE Utf8Decode(SubSeq(s.inp.buf, s.inp.cur + 1, s.inp.cur + CurLen(s)))

CurPos(s) == s.inp.cur

Advance(s) == [s EXCEPT !.inp.cur = @ + CurLen(s)]

\* hubbub_inputstream_rewind: fails (and the tokeniser aborts) when n
\* exceeds the bytes before the cursor.
RewindOk(s, n) == n <= s.inp.cur
Rewind(s, n) ==
    IF RewindOk(s, n) THEN [s EXCEPT !.inp.cur = @ - n]
    ELSE [s EXCEPT !.tok.aborted = TRUE]

\* A rewind whose result the caller does not test.
RewindUnchecked(s, n) == IF RewindOk(s, n) THEN [s EXCEPT !.inp.cur = @ - n] ELSE s

Lowercase(s) ==
    IF CurLen(s) # 1 THEN s
    ELSE [s EXCEPT !.inp.buf[s.inp.cur + 1] = ToLowerByte(@)]

Uppercase(s) ==
    IF CurLen(s) # 1 THEN s
    ELSE [s EXCEPT !.inp.buf[s.inp.cur + 1] = ToUpperByte(@)]

\* push_back: the stream yields c again before the rest.  When the bytes
\* before the cursor are c's encoding the cursor moves back over them;
\* otherwise the encoding is inserted at the cursor.
PushBack(s, c) ==
    LET e == Utf8Encode(c)
        n == Len(e)
        b == s.inp.buf
    IN  IF s.inp.cur >= n /\ SubSeq(b, s.inp.cur - n + 1, s.inp.cur) = e
        THEN [s EXCEPT !.inp.cur = @ - n]
        ELSE [s EXCEPT !.inp.buf =
                SubSeq(b, 1, s.inp.cur) \o e \o SubSeq(b, s.inp.cur + 1, Len(b))]

\* replace_range(off, len, cp): the len bytes at off become cp's UTF-8.
ReplaceRange(s, off, len, cp) ==
    LET b == s.inp.buf IN
    [s EXCEPT !.inp.buf =
            SubSeq(b, 1, off) \o Utf8Encode(cp) \o SubSeq(b, off + len + 1, Len(b)),
        !.inp.replaced = Append(@, [off |-> off, len |-> len, cp |-> cp])]

Range(s, off, len) == SubSeq(s.inp.buf, off + 1, off + len)

LowerSeq(bs) == [i \in 1..Len(bs) |-> ToLowerByte(bs[i])]

\* compare_range_ci / _cs / _ascii: TRUE when the ranges are equal.
CompareRangeCI(s, a, b, n) == LowerSeq(Range(s, a, n)) = LowerSeq(Range(s, b, n))
CompareRangeCS(s, a, b, n) == Range(s, a, n) = Range(s, b, n)
CompareRangeAscii(s, off, len, lit) == Range(s, off, len) = lit

(***************************************************************************)
(* Tokens and hubbub_tokeniser_emit_token                                  *)
(***************************************************************************)
Span(off, len) == [off |-> off, len |-> len]
NoSpan == Span(0, 0)

AttrText(s, a) ==
    [name |-> Range(s, a.name.off, a.name.len),
     value |-> Range(s, a.value.off, a.value.len)]

AttrTexts(s, attrs, n) == [i \in 1..n |-> AttrText(s, attrs[i])]

\* The token a handler builds, with the text its spans denote when it is
\* handed to the token handler.
MkToken(s, type, span, attrs, n, correct) ==
    [type |-> type, off |-> span.off, len |-> span.len,
     text |-> Range(s, span.off, span.len),
     attrs |-> AttrTexts(s, attrs, n),
     given |-> AttrTexts(s, attrs, n),
     spans |-> <<span>> \o [i \in 1..n |-> attrs[i].name]
                        \o [i \in 1..n |-> attrs[i].value],
     correct |-> correct,
     self_closing |-> type \in {"START_TAG", "END_TAG"}
                          /\ s.tok.current_tag.self_closing,
     by |-> s.tok.state,
     at |-> Peek(s)]

CharacterToken(s, span) == MkToken(s, "CHARACTER", span, <<>>, 0, FALSE)
CommentToken(s, span) == MkToken(s, "COMMENT", span, <<>>, 0, FALSE)
EofToken(s) == MkToken(s, "EOF", NoSpan, <<>>, 0, FALSE)
TagToken(s) ==
    MkToken(s, s.tok.current_tag_type, s.tok.current_tag.name,
            s.tok.current_tag.attributes, s.tok.current_tag.n_attributes, FALSE)
DoctypeToken(s, correct) ==
    MkToken(s, "DOCTYPE", s.tok.current_doctype.name, <<>>, 0, correct)

SameAttrName(s, x, y) ==
    /\ x.name.len = y.name.len
    /\ CompareRangeCS(s, x.name.off, y.name.off, x.name.len)

\* memmove(&attrs[k], &attrs[k+1], move * sizeof(hubbub_attribute)),
\* attrs indexed from 0 as in the source.
MoveDown(a, k, move) ==
    [x \in 1..Len(a) |-> IF x >= k + 1 /\ x <= k + move THEN a[x + 1] ELSE a[x]]

\* The attribute kept in place when attrs[i] and attrs[j] carry one name.
RemovedIndex(i, j) == IF i < j THEN j ELSE i

\* The inner loop over j of the duplicate scan, for a fixed i.
RECURSIVE DiscardInner(_, _, _, _, _)
DiscardInner(s, a, n, i, j) ==
    IF j >= n THEN [a |-> a, n |-> n, ub |-> FALSE]
    ELSE IF j = i \/ ~SameAttrName(s, a[i + 1], a[j + 1])
    THEN DiscardInner(s, a, n, i, j + 1)
    ELSE LET k == RemovedIndex(i, j)
             move == n - 1 - k
         IN  IF move < 0 \/ move > Len(a)
             THEN [a |-> a, n |-> n, ub |-> TRUE]
             ELSE DiscardInner(s, IF move > 0 THEN MoveDown(a, k, move) ELSE a,
                               n - 1, i, j + 1)

\* The outer loop over i.
RECURSIVE DiscardOuter(_, _, _, _)
DiscardOuter(s, a, n, i) ==
    IF i >= n THEN [a |-> a, n |-> n, ub |-> FALSE]
    ELSE LET r == DiscardInner(s, a, n, i, 0)
         IN  IF r.ub THEN r ELSE DiscardOuter(s, r.a, r.n, i + 1)

DiscardDuplicates(s, a, n) == DiscardOuter(s, a, n, 0)

\* What the registered token handler does to the tokeniser when it is given
\* a token: the tree builder switches the content model on the start tag of
\* a CDATA or RCDATA element; a plain recorder leaves it alone.
HandlerModel(s, token) ==
    IF token.type = "START_TAG" /\ s.tok.token_handler # "RECORD"
    THEN s.tok.token_handler
    ELSE s.tok.content_model

IsTag(token) == token.type = "START_TAG" \/ token.type = "END_TAG"

EmitToken(s, token) ==
    LET t == s.tok.current_tag
        r == DiscardDuplicates(s, t.attributes, t.n_attributes)
        final == IF IsTag(token)
                 THEN [token EXCEPT !.attrs = AttrTexts(s, r.a, r.n)]
                 ELSE token
    IN  IF IsTag(token) /\ r.ub
        THEN [s EXCEPT !.tok.aborted = TRUE]
        ELSE [s EXCEPT !.out = Append(@, final),
                       !.tok.content_model = HandlerModel(s, token),
                       !.tok.current_tag.attributes =
                            IF IsTag(token) THEN r.a ELSE @]

Ret(s, b) == [s EXCEPT !.cont = b]
Goto(s, st) == [s EXCEPT !.tok.state = st]

EmitCurrentTag(s) == EmitToken(s, TagToken(s))

(***************************************************************************)
(* State handlers                                                          *)
(***************************************************************************)
IsCData(s) == s.tok.content_model = "RCDATA" \/ s.tok.content_model = "CDATA"

\* The loop with `&` starting an entity whatever the content model.
RECURSIVE DataLoopEntityAnywhere(_)
DataLoopEntityAnywhere(s) ==
    LET c == Peek(s) IN
    IF c = EOF \/ c = OOD THEN s
    ELSE IF c = Ch("&") THEN Goto(s, "ENTITY_DATA")
    ELSE IF c = Ch("<") /\ s.tok.content_model # "PLAINTEXT"
    THEN LET e == IF s.tok.current_chars.len > 0
                  THEN EmitToken(s, CharacterToken(s, s.tok.current_chars))
                  ELSE s
         IN  Advance([e EXCEPT !.tok.current_chars = Span(CurPos(s), CurLen(s)),
                               !.tok.state = "TAG_OPEN"])
    ELSE DataLoopEntityAnywhere(Advance(
            [s EXCEPT !.tok.current_chars =
                Span(IF @.len = 0 THEN CurPos(s) ELSE @.off, @.len + 1)]))

\* The loop of the data state; pending characters are in current_chars.
RECURSIVE DataLoop(_)
DataLoop(s) ==
    LET c == Peek(s) IN
    IF c = EOF \/ c = OOD THEN s
    ELSE IF c = Ch("&") /\ (s.tok.content_model = "PCDATA"
                            \/ s.tok.content_model = "RCDATA")
    THEN Goto(s, "ENTITY_DATA")
    ELSE IF c = Ch("<") /\ s.tok.content_model # "PLAINTEXT"
    THEN LET e == IF s.tok.current_chars.len > 0
                  THEN EmitToken(s, CharacterToken(s, s.tok.current_chars))
                  ELSE s
         IN  Advance([e EXCEPT !.tok.current_chars = Span(CurPos(s), CurLen(s)),
                               !.tok.state = "TAG_OPEN"])
    ELSE DataLoop(Advance(
            [s EXCEPT !.tok.current_chars =
                Span(IF @.len = 0 THEN CurPos(s) ELSE @.off, @.len + 1)]))

\* The data state without lines 490-500: characters pending when the input
\* runs out are not emitted.
handle_data_without_flush(s) ==
    LET a == DataLoop([s EXCEPT !.tok.current_chars = NoSpan])
        c == Peek(a)
        b == IF a.tok.state # "TAG_OPEN" /\ a.tok.current_chars.len > 0 /\ c # OOD
             THEN [EmitToken(a, CharacterToken(a, a.tok.current_chars))
                        EXCEPT !.tok.current_chars = NoSpan]
             ELSE a
        d == IF c = EOF /\ a.tok.state = "DATA" THEN EmitToken(b, EofToken(b)) ELSE b
    IN  Ret(d, ~(a.tok.state = "DATA"))

handle_data(s) ==
    LET a == DataLoop([s EXCEPT !.tok.current_chars = NoSpan])
        c == Peek(a)
        b == IF a.tok.state # "TAG_OPEN" /\ a.tok.current_chars.len > 0
             THEN [EmitToken(a, CharacterToken(a, a.tok.current_chars))
                        EXCEPT !.tok.current_chars = NoSpan]
             ELSE a
        d == IF c = EOF /\ a.tok.state = "DATA" THEN EmitToken(b, EofToken(b)) ELSE b
    IN  Ret(d, ~(a.tok.state = "DATA"))

EmitChars(s) == EmitToken(s, CharacterToken(s, s.tok.current_chars))

\* current_chars.len += len of the character at the cursor
BufferCur(s) == [s EXCEPT !.tok.current_chars.len = @ + CurLen(s)]

handle_entity_data_complete(s) ==
    LET c == Peek(s) IN
    IF c = OOD \/ c = EOF THEN Ret([s EXCEPT !.tok.aborted = TRUE], FALSE)
    ELSE LET e == EmitToken(s, CharacterToken(s, Span(CurPos(s), CurLen(s))))
         IN  Ret(Advance([e EXCEPT !.tok.match_entity.complete = FALSE,
                                   !.tok.state = "DATA"]), TRUE)

\* A start or end tag begins at the cursor.
\* The name started with the tag type left as it was.
StartTagNameKeepingType(s, type) ==
    Advance([s EXCEPT !.tok.current_tag.name = Span(CurPos(s), CurLen(s)),
                      !.tok.current_tag.n_attributes = 0,
                      !.tok.state = "TAG_NAME"])

StartTagName(s, type) ==
    Advance([s EXCEPT !.tok.current_tag_type = type,
                      !.tok.current_tag.name = Span(CurPos(s), CurLen(s)),
                      !.tok.current_tag.n_attributes = 0,
                      !.tok.state = "TAG_NAME"])

StartBogusComment(s) ==
    Advance([s EXCEPT !.tok.current_comment = Span(CurPos(s), CurLen(s)),
                      !.tok.state = "BOGUS_COMMENT"])

handle_tag_open(s) ==
    LET c == Peek(s) IN
    IF c = OOD THEN Ret(s, FALSE)
    ELSE IF IsCData(s) THEN
        IF c = Ch("/")
        THEN Ret(Advance(Goto(BufferCur(s), "CLOSE_TAG_OPEN")), TRUE)
        ELSE Ret(Goto(EmitChars(s), "DATA"), TRUE)
    ELSE IF s.tok.content_model = "PCDATA" THEN
        IF c = Ch("!")
        THEN Ret(Advance(Goto(BufferCur(s), "MARKUP_DECLARATION_OPEN")), TRUE)
        ELSE IF c = Ch("/")
        THEN Ret(Advance(Goto(BufferCur(s), "CLOSE_TAG_OPEN")), TRUE)
        ELSE IF IsUpper(c)
        THEN Ret(StartTagName(Lowercase(s), "START_TAG"), TRUE)
        ELSE IF IsLower(c)
        THEN Ret(StartTagName(s, "START_TAG"), TRUE)
        ELSE IF c = Ch(">")
        THEN Ret(Advance(Goto(EmitChars(BufferCur(s)), "DATA")), TRUE)
        ELSE IF c = Ch("?")
        THEN Ret(StartBogusComment(BufferCur(s)), TRUE)
        ELSE Ret(Goto(EmitChars(s), "DATA"), TRUE)
    ELSE Ret(s, TRUE)

handle_close_tag_open(s) ==
    IF IsCData(s)
    THEN Ret([s EXCEPT !.tok.close_tag_match.len = 0,
                       !.tok.state = "CLOSE_TAG_MATCH"], TRUE)
    ELSE IF s.tok.content_model = "PCDATA" THEN
        LET c == Peek(s) IN
        IF IsUpper(c) THEN Ret(StartTagName(Lowercase(s), "END_TAG"), TRUE)
        ELSE IF IsLower(c) THEN Ret(StartTagName(s, "END_TAG"), TRUE)
        ELSE IF c = Ch(">") THEN Ret(Advance(Goto(s, "DATA")), TRUE)
        ELSE IF c = EOF THEN Ret(Goto(EmitChars(s), "DATA"), TRUE)
        ELSE IF c # OOD THEN Ret(StartBogusComment(s), TRUE)
        ELSE Ret(s, FALSE)
    ELSE Ret(s, TRUE)

\* White space and '>' only.
IsSpaceOrTagEnd(c) == IsSpace(c) \/ c = Ch(">")

\* The characters that may follow the name of an accepted close tag.
IsTagTerminator(c) ==
    \/ c = Ch("\t") \/ c = Ch("\n") \/ c = VT \/ c = FF \/ c = Ch(" ")
    \/ c = Ch(">") \/ c = Ch("/") \/ c = Ch("<") \/ c = EOF

\* Emit "</" as characters and leave the cursor where the match failed.
CloseTagRejectInPlace(s) == Goto(EmitChars(s), "DATA")

\* Rewind to the start of the candidate name and emit "</" as characters.
CloseTagReject(s) ==
    LET r == Rewind(s, s.tok.close_tag_match.len) IN
    IF r.tok.aborted THEN r ELSE Goto(EmitChars(r), "DATA")

CloseTagNameMatches(s) ==
    /\ s.tok.close_tag_match.len = s.tok.current_tag.name.len
    /\ CompareRangeCI(s, s.tok.current_tag.name.off, s.tok.close_tag_match.off,
                      s.tok.current_tag.name.len)

\* The matching loop: [s, c, done]; done when the handler returned inside it.
RECURSIVE CloseTagMatchLoop(_, _)
CloseTagMatchLoop(s, c) ==
    IF ~(s.tok.close_tag_match.len < s.tok.current_tag.name.len)
    THEN [s |-> s, c |-> c, done |-> FALSE]
    ELSE LET c2 == Peek(s) IN
         IF c2 = EOF \/ c2 = OOD THEN [s |-> s, c |-> c2, done |-> FALSE]
         ELSE LET a == Advance([s EXCEPT !.tok.close_tag_match =
                            IF @.len = 0 THEN Span(CurPos(s), CurLen(s))
                            ELSE Span(@.off, @.len + CurLen(s))])
                  n == a.tok.close_tag_match.len
              IN  IF n > a.tok.current_tag.name.len
                      \/ (n = a.tok.current_tag.name.len /\ ~CloseTagNameMatches(a))
                  THEN [s |-> CloseTagReject(a), c |-> c2, done |-> TRUE]
                  ELSE IF CloseTagNameMatches(a)
                  THEN [s |-> a, c |-> c2, done |-> FALSE]
                  ELSE CloseTagMatchLoop(a, c2)

handle_close_tag_match(s) ==
    LET l == CloseTagMatchLoop(s, 0) IN
    IF l.done THEN Ret(l.s, TRUE)
    ELSE IF l.c = OOD THEN Ret(l.s, FALSE)
    ELSE IF l.c = EOF THEN Ret(CloseTagReject(l.s), TRUE)
    ELSE LET c == Peek(l.s) IN
         IF c = OOD THEN Ret(l.s, FALSE)
         ELSE IF ~RewindOk(l.s, l.s.tok.close_tag_match.len)
         THEN Ret(Rewind(l.s, l.s.tok.close_tag_match.len), TRUE)
         ELSE IF ~IsTagTerminator(c) THEN Ret(CloseTagReject(l.s), TRUE)
         ELSE Ret([Rewind(l.s, l.s.tok.close_tag_match.len)
                        EXCEPT !.tok.content_model = "PCDATA",
                               !.tok.state = "CLOSE_TAG_OPEN"], TRUE)

EmitTagToData(s) == Goto(EmitCurrentTag(s), "DATA")

handle_tag_name(s) ==
    LET c == Peek(s) IN
    IF c = OOD THEN Ret(s, FALSE)
    ELSE IF IsSpace(c) THEN Ret(Advance(Goto(s, "BEFORE_ATTRIBUTE_NAME")), TRUE)
    ELSE IF c = Ch(">") THEN Ret(Advance(EmitTagToData(s)), TRUE)
    ELSE IF IsUpper(c)
    THEN LET l == Lowercase(s) IN
         Ret(Advance([l EXCEPT !.tok.current_tag.name.len = @ + CurLen(l)]), TRUE)
    ELSE IF c = Ch("<") \/ c = EOF THEN Ret(EmitTagToData(s), TRUE)
    ELSE IF c = Ch("/") THEN Ret(Advance(Goto(s, "BEFORE_ATTRIBUTE_NAME")), TRUE)
    ELSE Ret(Advance([s EXCEPT !.tok.current_tag.name.len = @ + CurLen(s)]), TRUE)

\* ctag->attributes = attr, attr[n_attributes] = a, n_attributes++ and the
\* move to the attribute-name state.
StoreAttribute(s, array, a) ==
    Advance([s EXCEPT !.tok.current_tag.attributes = Append(array, a),
                      !.tok.current_tag.n_attributes = @ + 1,
                      !.tok.state = "ATTRIBUTE_NAME"])

\* An attribute entry of zero bytes.
ZeroAttribute == [name |-> NoSpan, value |-> NoSpan]

\* The allocator gave NULL: the empty `if`, then the NULL is stored as the
\* array (the array there was is lost) and the entry is written through it.
\* That write is undefined: it traps and the process ends, or it lands in
\* the memory at address 0, which then serves as the array.
AllocationFailed(s, a) ==
    LET t == s.tok.current_tag
        stored == [s EXCEPT !.tok.oom = [failed |-> TRUE, stored_null |-> TRUE,
                                         wrote_null |-> TRUE,
                                         lost_array |-> ~s.tok.attributes_null],
                            !.tok.attributes_null = TRUE,
                            !.tok.current_tag.attributes = <<>>]
    IN  IF s.tok.null_write = "TRAPS"
        THEN [stored EXCEPT !.tok.aborted = TRUE]
        ELSE StoreAttribute(stored, [i \in 1..t.n_attributes |-> ZeroAttribute], a)

\* realloc the attribute array to n_attributes + 1 entries and start a new
\* attribute whose name is the character at the cursor.
NewAttribute(s) ==
    LET t == s.tok.current_tag
        a == [name |-> Span(CurPos(s), CurLen(s)), value |-> NoSpan]
    IN  IF s.tok.alloc = "FAILS"
        THEN AllocationFailed(s, a)
        ELSE StoreAttribute([s EXCEPT !.tok.attributes_null = FALSE],
                            SubSeq(t.attributes, 1, t.n_attributes), a)

handle_before_attribute_name(s) ==
    LET c == Peek(s) IN
    IF c = OOD THEN Ret(s, FALSE)
    ELSE IF IsSpace(c) THEN Ret(Advance(s), TRUE)
    ELSE IF c = Ch(">") THEN Ret(Advance(EmitTagToData(s)), TRUE)
    ELSE IF IsUpper(c) THEN Ret(NewAttribute(Lowercase(s)), TRUE)
    ELSE IF c = Ch("/") THEN Ret(Advance(s), TRUE)
    ELSE IF c = Ch("<") \/ c = EOF THEN Ret(EmitTagToData(s), TRUE)
    ELSE Ret(NewAttribute(s), TRUE)

\* attributes[n_attributes - 1].name.len += len
GrowAttrName(s) ==
    Advance([s EXCEPT
        !.tok.current_tag.attributes[s.tok.current_tag.n_attributes].name.len =
            @ + CurLen(s)])

\* The attribute-name state with capital letters taken as they are written.
handle_attribute_name_as_written(s) ==
    LET c == Peek(s) IN
    IF c = OOD THEN Ret(s, FALSE)
    ELSE IF IsSpace(c) THEN Ret(Advance(Goto(s, "AFTER_ATTRIBUTE_NAME")), TRUE)
    ELSE IF c = Ch("=") THEN Ret(Advance(Goto(s, "BEFORE_ATTRIBUTE_VALUE")), TRUE)
    ELSE IF c = Ch(">") THEN Ret(Advance(EmitTagToData(s)), TRUE)
    ELSE IF c = Ch("/") THEN Ret(Advance(Goto(s, "BEFORE_ATTRIBUTE_NAME")), TRUE)
    ELSE IF c = Ch("<") \/ c = EOF THEN Ret(EmitTagToData(s), TRUE)
    ELSE Ret(GrowAttrName(s), TRUE)

handle_attribute_name(s) ==
    LET c == Peek(s) IN
    IF c = OOD THEN Ret(s, FALSE)
    ELSE IF IsSpace(c) THEN Ret(Advance(Goto(s, "AFTER_ATTRIBUTE_NAME")), TRUE)
    ELSE IF c = Ch("=") THEN Ret(Advance(Goto(s, "BEFORE_ATTRIBUTE_VALUE")), TRUE)
    ELSE IF c = Ch(">") THEN Ret(Advance(EmitTagToData(s)), TRUE)
    ELSE IF IsUpper(c) THEN Ret(GrowAttrName(Lowercase(s)), TRUE)
    ELSE IF c = Ch("/") THEN Ret(Advance(Goto(s, "BEFORE_ATTRIBUTE_NAME")), TRUE)
    ELSE IF c = Ch("<") \/ c = EOF THEN Ret(EmitTagToData(s), TRUE)
    ELSE Ret(GrowAttrName(s), TRUE)

handle_after_attribute_name(s) ==
    LET c == Peek(s) IN
    IF c = OOD THEN Ret(s, FALSE)
    ELSE IF IsSpace(c) THEN Ret(Advance(s), TRUE)
    ELSE IF c = Ch("=") THEN Ret(Advance(Goto(s, "BEFORE_ATTRIBUTE_VALUE")), TRUE)
    ELSE IF c = Ch(">") THEN Ret(Advance(EmitTagToData(s)), TRUE)
    ELSE IF IsUpper(c) THEN Ret(NewAttribute(Lowercase(s)), TRUE)
    ELSE IF c = Ch("/") THEN Ret(Advance(Goto(s, "BEFORE_ATTRIBUTE_NAME")), TRUE)
    ELSE IF c = Ch("<") \/ c = EOF THEN Ret(EmitTagToData(s), TRUE)
    ELSE Ret(NewAttribute(Lowercase(s)), TRUE)

\* The value of the attribute being built grows by the character at the
\* cursor; its offset is set when the value is still empty.
GrowAttrValue(s) ==
    LET n == s.tok.current_tag.n_attributes IN
    Advance([s EXCEPT !.tok.current_tag.attributes[n].value =
        Span(IF @.len = 0 THEN CurPos(s) ELSE @.off, @.len + CurLen(s))])

handle_before_attribute_value(s) ==
    LET c == Peek(s)
        n == s.tok.current_tag.n_attributes
    IN
    IF c = OOD THEN Ret(s, FALSE)
    ELSE IF IsSpace(c) THEN Ret(Advance(s), TRUE)
    ELSE IF c = Ch("\"") THEN Ret(Advance(Goto(s, "ATTRIBUTE_VALUE_DQ")), TRUE)
    ELSE IF c = Ch("&") THEN Ret(Goto(s, "ATTRIBUTE_VALUE_UQ"), TRUE)
    ELSE IF c = Ch("'") THEN Ret(Advance(Goto(s, "ATTRIBUTE_VALUE_SQ")), TRUE)
    ELSE IF c = Ch(">") THEN Ret(Advance(EmitTagToData(s)), TRUE)
    ELSE IF c = Ch("<") \/ c = EOF THEN Ret(EmitTagToData(s), TRUE)
    ELSE Ret(Advance([s EXCEPT
                !.tok.current_tag.attributes[n].value = Span(CurPos(s), CurLen(s)),
                !.tok.state = "ATTRIBUTE_VALUE_UQ"]), TRUE)

EnterAttrEntity(s) ==
    [s EXCEPT !.tok.prev_state = s.tok.state,
              !.tok.state = "ENTITY_IN_ATTRIBUTE_VALUE"]

\* The double- and single-quoted value states differ in the quote only.
QuotedValue(s, quote) ==
    LET c == Peek(s) IN
    IF c = OOD THEN Ret(s, FALSE)
    ELSE IF c = quote THEN Ret(Advance(Goto(s, "BEFORE_ATTRIBUTE_NAME")), TRUE)
    ELSE IF c = Ch("&") THEN Ret(EnterAttrEntity(s), TRUE)
    ELSE IF c = EOF THEN Ret(EmitTagToData(s), TRUE)
    ELSE Ret(GrowAttrValue(s), TRUE)

handle_attribute_value_dq(s) == QuotedValue(s, Ch("\""))
handle_attribute_value_sq(s) == QuotedValue(s, Ch("'"))

handle_attribute_value_uq(s) ==
    LET c == Peek(s) IN
    IF c = OOD THEN Ret(s, FALSE)
    ELSE IF IsSpace(c) THEN Ret(Advance(Goto(s, "BEFORE_ATTRIBUTE_NAME")), TRUE)
    ELSE IF c = Ch("&") THEN Ret(EnterAttrEntity(s), TRUE)
    ELSE IF c = Ch(">") THEN Ret(Advance(EmitTagToData(s)), TRUE)
    ELSE IF c = Ch("<") \/ c = EOF THEN Ret(EmitTagToData(s), TRUE)
    ELSE Ret(GrowAttrValue(s), TRUE)

handle_entity_in_attribute_value_complete(s) ==
    LET c == Peek(s) IN
    IF c = OOD \/ c = EOF THEN Ret([s EXCEPT !.tok.aborted = TRUE], FALSE)
    ELSE LET g == GrowAttrValue(s) IN
         Ret([g EXCEPT !.tok.match_entity.complete = FALSE,
                       !.tok.state = s.tok.prev_state], TRUE)

\* current_comment grows by the character at the cursor.
GrowComment(s) ==
    Advance([s EXCEPT !.tok.current_comment =
        Span(IF @.len = 0 THEN CurPos(s) ELSE @.off, @.len + CurLen(s))])

EmitComment(s) == Goto(EmitToken(s, CommentToken(s, s.tok.current_comment)), "DATA")

RECURSIVE BogusCommentLoop(_)
BogusCommentLoop(s) ==
    LET c == Peek(s) IN
    IF c = EOF \/ c = OOD THEN [s |-> s, c |-> c]
    ELSE IF c = Ch(">") THEN [s |-> Advance(s), c |-> c]
    ELSE BogusCommentLoop(GrowComment(s))

handle_bogus_comment(s) ==
    LET l == BogusCommentLoop(s) IN
    IF l.c = OOD THEN Ret(l.s, FALSE) ELSE Ret(EmitComment(l.s), TRUE)

handle_markup_declaration_open(s) ==
    LET c == Peek(s) IN
    IF c = OOD THEN Ret(s, FALSE)
    ELSE IF c = Ch("-") THEN Ret(Advance(Goto(s, "COMMENT_START")), TRUE)
    ELSE IF ClearBit5(c) = Ch("D")
    THEN Ret(Advance([Uppercase(s) EXCEPT !.tok.match_doctype.count = 1,
                                          !.tok.state = "MATCH_DOCTYPE"]), TRUE)
    ELSE Ret([s EXCEPT !.tok.current_comment = NoSpan,
                       !.tok.state = "BOGUS_COMMENT"], TRUE)

handle_comment_start(s) ==
    LET c == Peek(s)
        r == [s EXCEPT !.tok.current_comment = NoSpan]
    IN
    IF c = OOD THEN Ret(s, FALSE)
    ELSE IF c = Ch("-") THEN Ret(Advance(Goto(r, "COMMENT")), TRUE)
    ELSE Ret(Goto(PushBack(r, Ch("-")), "BOGUS_COMMENT"), TRUE)

handle_comment(s) ==
    LET c == Peek(s) IN
    IF c = OOD THEN Ret(s, FALSE)
    ELSE IF c = Ch("-") THEN Ret(Advance(Goto(s, "COMMENT_DASH")), TRUE)
    ELSE IF c = EOF THEN Ret(EmitComment(s), TRUE)
    ELSE Ret(GrowComment(s), TRUE)

\* After one or two dashes that did not end the comment: the comment is
\* made to reach to the end of the character at the cursor.
CommentThrough(s) ==
    LET m == s.tok.current_comment IN
    Advance([s EXCEPT
        !.tok.current_comment =
            IF m.len = 0 THEN Span(CurPos(s), CurLen(s))
            ELSE Span(m.off, CurLen(s) + (CurPos(s) - m.off)),
        !.tok.state = "COMMENT"])

handle_comment_dash(s) ==
    LET c == Peek(s) IN
    IF c = OOD THEN Ret(s, FALSE)
    ELSE IF c = Ch("-") THEN Ret(Advance(Goto(s, "COMMENT_END")), TRUE)
    ELSE IF c = EOF THEN Ret(EmitComment(s), TRUE)
    ELSE Ret(CommentThrough(s), TRUE)

handle_comment_end(s) ==
    LET c == Peek(s)
        m == s.tok.current_comment
    IN
    IF c = OOD THEN Ret(s, FALSE)
    ELSE IF c = Ch(">") THEN Ret(Advance(EmitComment(s)), TRUE)
    ELSE IF c = Ch("-")
    THEN Ret(Advance([s EXCEPT
                !.tok.current_comment =
                    IF m.len = 0 THEN Span(CurPos(s), CurLen(s))
                    ELSE Span(m.off, CurPos(s) - m.off),
                !.tok.state = "COMMENT_END"]), TRUE)
    ELSE IF c = EOF THEN Ret(EmitComment(s), TRUE)
    ELSE Ret(CommentThrough(s), TRUE)

DoctypeLetters == Bytes(<<"D", "O", "C", "T", "Y", "P", "E">>)

\* The switch without its last case: the first letter is not pushed back.
RECURSIVE PushBackLettersButFirst(_, _)
PushBackLettersButFirst(s, count) ==
    IF count <= 1 THEN s
    ELSE PushBackLettersButFirst(PushBack(s, DoctypeLetters[count]), count - 1)

\* The fall-through switch: letters count, count-1, ..., 1 are pushed back.
RECURSIVE PushBackLetters(_, _)
PushBackLetters(s, count) ==
    IF count = 0 THEN s
    ELSE PushBackLetters(PushBack(s, DoctypeLetters[count]), count - 1)

handle_match_doctype(s) ==
    LET c == Peek(s)
        n == s.tok.match_doctype.count
    IN
    IF c = OOD THEN Ret(s, FALSE)
    ELSE IF n >= 1 /\ n <= 5 /\ ClearBit5(c) = DoctypeLetters[n + 1]
    THEN Ret(Advance([Uppercase(s) EXCEPT !.tok.match_doctype.count = @ + 1]), TRUE)
    ELSE IF n = 6 /\ ClearBit5(c) = DoctypeLetters[7]
    THEN Ret(Advance(Goto(Uppercase(s), "DOCTYPE")), TRUE)
    ELSE Ret([PushBackLetters(s, IF n <= 6 THEN n ELSE 0)
                EXCEPT !.tok.current_comment = NoSpan,
                       !.tok.state = "BOGUS_COMMENT"], TRUE)

handle_doctype(s) ==
    LET c == Peek(s) IN
    IF c = OOD THEN Ret(s, FALSE)
    ELSE Ret(Goto(IF IsSpace(c) THEN Advance(s) ELSE s, "BEFORE_DOCTYPE_NAME"), TRUE)

\* The stored (never recomputed) correctness flag goes out with the token.
EmitDoctypeAsIs(s) ==
    Goto(EmitToken(s, DoctypeToken(s, s.tok.current_doctype.correct)), "DATA")

HtmlName == Bytes(<<"H", "T", "M", "L">>)

\* A comparison of the name as written with "html".
NameIsLowercaseHtml(s) ==
    CompareRangeAscii(s, s.tok.current_doctype.name.off,
                      s.tok.current_doctype.name.len, LowerSeq(HtmlName))

\* The flag is computed from the name when the doctype ends at '>'.
NameIsHtml(s) ==
    CompareRangeAscii(s, s.tok.current_doctype.name.off,
                      s.tok.current_doctype.name.len, HtmlName)

EmitDoctypeChecked(s) ==
    Goto(EmitToken(s, DoctypeToken(s, NameIsHtml(s))), "DATA")

StartDoctypeName(s) ==
    Advance([s EXCEPT !.tok.current_doctype.name = Span(CurPos(s), CurLen(s)),
                      !.tok.current_doctype.correct = FALSE,
                      !.tok.state = "DOCTYPE_NAME"])

handle_before_doctype_name(s) ==
    LET c == Peek(s) IN
    IF c = OOD THEN Ret(s, FALSE)
    ELSE IF IsSpace(c) THEN Ret(Advance(s), TRUE)
    ELSE IF IsLower(c) THEN Ret(StartDoctypeName(Uppercase(s)), TRUE)
    ELSE IF c = Ch(">") THEN Ret(Advance(EmitDoctypeAsIs(s)), TRUE)
    ELSE IF c = EOF THEN Ret(EmitDoctypeAsIs(s), TRUE)
    ELSE Ret(StartDoctypeName(s), TRUE)

GrowDoctypeName(s) ==
    Advance([s EXCEPT !.tok.current_doctype.name.len = @ + CurLen(s)])

handle_doctype_name(s) ==
    LET c == Peek(s) IN
    IF c = OOD THEN Ret(s, FALSE)
    ELSE IF IsSpace(c) THEN Ret(Advance(Goto(s, "AFTER_DOCTYPE_NAME")), TRUE)
    ELSE IF c = Ch(">") THEN Ret(Advance(EmitDoctypeChecked(s)), TRUE)
    ELSE IF IsLower(c) THEN Ret(GrowDoctypeName(Uppercase(s)), TRUE)
    ELSE IF c = EOF THEN Ret(EmitDoctypeAsIs(s), TRUE)
    ELSE Ret(GrowDoctypeName(s), TRUE)

handle_after_doctype_name(s) ==
    LET c == Peek(s) IN
    IF c = OOD THEN Ret(s, FALSE)
    ELSE IF IsSpace(c) THEN Ret(Advance(s), TRUE)
    ELSE IF c = Ch(">") THEN Ret(Advance(EmitDoctypeChecked(s)), TRUE)
    ELSE IF c = EOF THEN Ret(EmitDoctypeAsIs(s), TRUE)
    ELSE Ret(Advance([s EXCEPT !.tok.current_doctype.correct = FALSE,
                               !.tok.state = "BOGUS_DOCTYPE"]), TRUE)

handle_bogus_doctype(s) ==
    LET c == Peek(s) IN
    IF c = OOD THEN Ret(s, FALSE)
    ELSE IF c = Ch(">") THEN Ret(Advance(EmitDoctypeAsIs(s)), TRUE)
    ELSE IF c = EOF THEN Ret(EmitDoctypeAsIs(s), TRUE)
    ELSE Ret(Advance(s), TRUE)

(***************************************************************************)
(* Entities                                                                *)
(***************************************************************************)
\* A uint32_t as its two 16-bit halves.
Half == 65536
U32(n) == [hi |-> n \div Half, lo |-> n % Half]
U32Value(v) == v.hi * Half + v.lo

cp1252Table ==
    <<8364, 65533, 8218, 402, 8222, 8230, 8224, 8225,
      710, 8240, 352, 8249, 338, 65533, 381, 65533,
      65533, 8216, 8217, 8220, 8221, 8226, 8211, 8212,
      732, 8482, 353, 8250, 339, 65533, 382, 376>>

ReplacementChar == 65533
MaxCodepoint == 1114111

\* The named-entity dictionary: a few entries of the HTML entity table,
\* among them a name that is a prefix of another.
EntityTable ==
    { [name |-> Bytes(<<"a", "m", "p">>), cp |-> 38],
      [name |-> Bytes(<<"o", "r">>), cp |-> 8744],
      [name |-> Bytes(<<"o", "r", "d", "f">>), cp |-> 170] }

IsPrefix(p, q) == Len(p) <= Len(q) /\ SubSeq(q, 1, Len(p)) = p

\* hubbub_entities_search_step(c, &cp, &context): context is the path
\* walked so far.  OK: the path is an entity name; NEEDDATA: it is a proper
\* prefix of one; INVALID: no entity name starts with it.
SearchStep(c, context) ==
    LET path == Append(context, c)
        exact == {e \in EntityTable : e.name = path}
    IN  IF exact # {}
        THEN [error |-> "OK", cp |-> (CHOOSE e \in exact : TRUE).cp, context |-> path]
        ELSE IF \E e \in EntityTable : IsPrefix(path, e.name)
        THEN [error |-> "NEEDDATA", cp |-> 0, context |-> path]
        ELSE [error |-> "INVALID", cp |-> 0, context |-> context]

\* match_entity.str.len += len of the character at the cursor
GrowEntityStr(s) == [s EXCEPT !.tok.match_entity.str.len = @ + CurLen(s)]

EntitySetup(s) ==
    Advance([s EXCEPT !.tok.match_entity =
        [str |-> Span(CurPos(s), CurLen(s)), base |-> 0, codepoint |-> U32(0),
         had_data |-> FALSE, return_state |-> s.tok.state, complete |-> FALSE,
         done_setup |-> TRUE, context |-> <<>>, prev_len |-> CurLen(s)]])

hubbub_tokeniser_consume_entity(s) ==
    LET a == IF s.tok.match_entity.done_setup THEN s ELSE EntitySetup(s)
        c == Peek(a)
    IN  IF c = OOD THEN Ret(a, FALSE)
        ELSE IF c = Ch("#")
        THEN Ret(Advance(Goto(GrowEntityStr(a), "NUMBERED_ENTITY")), TRUE)
        ELSE Ret(Goto(a, "NAMED_ENTITY"), TRUE)

handle_entity_data(s) ==
    IF ~s.tok.match_entity.complete
    THEN hubbub_tokeniser_consume_entity(s)
    ELSE handle_entity_data_complete(s)

handle_entity_in_attribute_value(s) ==
    IF ~s.tok.match_entity.complete
    THEN hubbub_tokeniser_consume_entity(s)
    ELSE handle_entity_in_attribute_value_complete(s)

IsHexLetter(c) == ClearBit5(c) >= Ch("A") /\ ClearBit5(c) <= Ch("F")

\* The value of a digit in the accumulation.
DigitValue(c) == IF IsDigit(c) THEN c - Ch("0") ELSE ClearBit5(c) - Ch("A") + 10

\* codepoint = codepoint * base + digit, in uint32_t arithmetic.
Accumulate(v, base, c) ==
    LET low == v.lo * base + DigitValue(c)
    IN  [hi |-> (v.hi * base + low \div Half) % Half, lo |-> low % Half]

RECURSIVE NumberedLoop(_)
NumberedLoop(s) ==
    LET c == Peek(s)
        m == s.tok.match_entity
    IN  IF c = EOF \/ c = OOD THEN s
        ELSE IF (m.base = 10 /\ IsDigit(c))
                 \/ (m.base = 16 /\ (IsDigit(c) \/ IsHexLetter(c)))
        THEN NumberedLoop(Advance(GrowEntityStr(
                [s EXCEPT !.tok.match_entity.had_data = TRUE,
                          !.tok.match_entity.codepoint =
                                Accumulate(@, m.base, c)])))
        ELSE s

\* The accumulated value itself, whatever it is.
NumericCodepointUnmapped(v) == U32Value(v)

\* The codepoint substituted for the accumulated value v.
NumericCodepoint(v) ==
    IF v.hi = 0 /\ 128 <= v.lo /\ v.lo <= 159 THEN cp1252Table[v.lo - 128 + 1]
    ELSE IF (v.hi = 0 /\ v.lo = 0) \/ v.hi > MaxCodepoint \div Half
    THEN ReplacementChar
    ELSE U32Value(v)

\* Completion that always resumes the entity-data state.
EntityDoneToData(s) ==
    [s EXCEPT !.tok.match_entity.done_setup = FALSE,
              !.tok.match_entity.complete = TRUE,
              !.tok.state = "ENTITY_DATA"]

\* Completion common to both entity sub-machines.
EntityDone(s) ==
    [s EXCEPT !.tok.match_entity.done_setup = FALSE,
              !.tok.match_entity.complete = TRUE,
              !.tok.state = s.tok.match_entity.return_state]

\* The trailing part without the rewind of lines 2080-2082: the cursor is
\* left behind the matched text.
NumberedFinishInPlace(s) ==
    LET c == Peek(s)
        a == IF c = Ch(";") THEN Advance(GrowEntityStr(s)) ELSE s
        m == a.tok.match_entity
        cp == NumericCodepoint(m.codepoint)
    IN  EntityDone(
            IF m.had_data
            THEN ReplaceRange([a EXCEPT !.tok.match_entity.codepoint = U32(cp)],
                              m.str.off, m.str.len, cp)
            ELSE a)

\* The trailing part of the numbered-entity handler, once the digits are
\* read and the character c after them is known.
NumberedFinish(s) ==
    LET c == Peek(s)
        a == IF c = Ch(";") THEN Advance(GrowEntityStr(s)) ELSE s
        m == a.tok.match_entity
        r == RewindUnchecked(a, m.str.len)
        cp == NumericCodepoint(m.codepoint)
    IN  EntityDone(
            IF m.had_data
            THEN ReplaceRange([r EXCEPT !.tok.match_entity.codepoint = U32(cp)],
                              m.str.off, m.str.len, cp)
            ELSE r)

handle_numbered_entity(s) ==
    LET c == Peek(s) IN
    IF c = OOD THEN Ret(s, FALSE)
    ELSE LET a == IF s.tok.match_entity.base # 0 THEN s
                  ELSE IF ClearBit5(c) = Ch("X")
                  THEN Advance(GrowEntityStr([s EXCEPT !.tok.match_entity.base = 16]))
                  ELSE [s EXCEPT !.tok.match_entity.base = 10]
             l == NumberedLoop(a)
         IN  IF Peek(l) = OOD THEN Ret(l, FALSE) ELSE Ret(NumberedFinish(l), TRUE)

RECURSIVE NamedLoopKeepingFirst(_)
\* The search loop that keeps the first complete name it meets.
NamedLoopKeepingFirst(s) ==
    LET c == Peek(s) IN
    IF c = EOF \/ c = OOD \/ c > 127 THEN s
    ELSE LET r == SearchStep(c, s.tok.match_entity.context) IN
         IF r.error = "OK" /\ s.tok.match_entity.codepoint = U32(0)
         THEN LET g == GrowEntityStr(s) IN
              NamedLoopKeepingFirst(Advance([g EXCEPT
                    !.tok.match_entity.codepoint = U32(r.cp),
                    !.tok.match_entity.context = r.context,
                    !.tok.match_entity.prev_len = g.tok.match_entity.str.len]))
         ELSE IF r.error = "INVALID" THEN s
         ELSE NamedLoopKeepingFirst(Advance([GrowEntityStr(s) EXCEPT
                    !.tok.match_entity.context = r.context]))

RECURSIVE NamedLoop(_)
NamedLoop(s) ==
    LET c == Peek(s) IN
    IF c = EOF \/ c = OOD \/ c > 127 THEN s
    ELSE LET r == SearchStep(c, s.tok.match_entity.context) IN
         IF r.error = "OK"
         THEN LET g == GrowEntityStr(s) IN
              NamedLoop(Advance([g EXCEPT
                    !.tok.match_entity.codepoint = U32(r.cp),
                    !.tok.match_entity.context = r.context,
                    !.tok.match_entity.prev_len = g.tok.match_entity.str.len]))
         ELSE IF r.error = "INVALID" THEN s
         ELSE NamedLoop(Advance([GrowEntityStr(s) EXCEPT
                    !.tok.match_entity.context = r.context]))

\* A semicolon wherever the search stopped.
TakesAnySemicolon(s, c) ==
    s.tok.match_entity.codepoint # U32(0) /\ c = Ch(";")

\* The semicolon after the name belongs to the match only when the last
\* complete name ends right before it.
TakesSemicolon(s, c) ==
    /\ s.tok.match_entity.codepoint # U32(0)
    /\ c = Ch(";")
    /\ s.tok.match_entity.prev_len = s.tok.match_entity.str.len

NamedFinish(s) ==
    LET c == Peek(s)
        a == IF TakesSemicolon(s, c)
             THEN [s EXCEPT !.tok.match_entity.prev_len = @ + CurLen(s)]
             ELSE s
        m == a.tok.match_entity
        r == RewindUnchecked(a, m.str.len)
    IN  EntityDone(
            IF m.codepoint # U32(0)
            THEN ReplaceRange(r, m.str.off, m.prev_len, U32Value(m.codepoint))
            ELSE r)

handle_named_entity(s) ==
    LET l == NamedLoop(s) IN
    IF Peek(l) = OOD THEN Ret(l, FALSE) ELSE Ret(NamedFinish(l), TRUE)

(***************************************************************************)
(* hubbub_tokeniser_run                                                    *)
(***************************************************************************)
\* One iteration of the dispatch loop: the handler of the current state.
Dispatch(s) ==
    CASE s.tok.state = "DATA" -> handle_data(s)
      [] s.tok.state = "ENTITY_DATA" -> handle_entity_data(s)
      [] s.tok.state = "TAG_OPEN" -> handle_tag_open(s)
      [] s.tok.state = "CLOSE_TAG_OPEN" -> handle_close_tag_open(s)
      [] s.tok.state = "CLOSE_TAG_MATCH" -> handle_close_tag_match(s)
      [] s.tok.state = "TAG_NAME" -> handle_tag_name(s)
      [] s.tok.state = "BEFORE_ATTRIBUTE_NAME" -> handle_before_attribute_name(s)
      [] s.tok.state = "ATTRIBUTE_NAME" -> handle_attribute_name(s)
      [] s.tok.state = "AFTER_ATTRIBUTE_NAME" -> handle_after_attribute_name(s)
      [] s.tok.state = "BEFORE_ATTRIBUTE_VALUE" -> handle_before_attribute_value(s)
      [] s.tok.state = "ATTRIBUTE_VALUE_DQ" -> handle_attribute_value_dq(s)
      [] s.tok.state = "ATTRIBUTE_VALUE_SQ" -> handle_attribute_value_sq(s)
      [] s.tok.state = "ATTRIBUTE_VALUE_UQ" -> handle_attribute_value_uq(s)
      [] s.tok.state = "ENTITY_IN_ATTRIBUTE_VALUE" ->
            handle_entity_in_attribute_value(s)
      [] s.tok.state = "BOGUS_COMMENT" -> handle_bogus_comment(s)
      [] s.tok.state = "MARKUP_DECLARATION_OPEN" ->
            handle_markup_declaration_open(s)
      [] s.tok.state = "COMMENT_START" -> handle_comment_start(s)
      [] s.tok.state = "COMMENT" -> handle_comment(s)
      [] s.tok.state = "COMMENT_DASH" -> handle_comment_dash(s)
      [] s.tok.state = "COMMENT_END" -> handle_comment_end(s)
      [] s.tok.state = "MATCH_DOCTYPE" -> handle_match_doctype(s)
      [] s.tok.state = "DOCTYPE" -> handle_doctype(s)
      [] s.tok.state = "BEFORE_DOCTYPE_NAME" -> handle_before_doctype_name(s)
      [] s.tok.state = "DOCTYPE_NAME" -> handle_doctype_name(s)
      [] s.tok.state = "AFTER_DOCTYPE_NAME" -> handle_after_doctype_name(s)
      [] s.tok.state = "BOGUS_DOCTYPE" -> handle_bogus_doctype(s)
      [] s.tok.state = "NUMBERED_ENTITY" -> handle_numbered_entity(s)
      [] s.tok.state = "NAMED_ENTITY" -> handle_named_entity(s)

\* abort() ends the process: no further iteration.
Aborting(r) == IF r.tok.aborted THEN Ret(r, FALSE) ELSE r

Iteration(s) == Aborting(Dispatch(s))

MaxIterations == 64

\* A call of hubbub_tokeniser_run to its return (at most fuel iterations).
RECURSIVE RunLoop(_, _)
RunLoop(s, fuel) ==
    IF ~s.cont \/ fuel = 0 THEN s ELSE RunLoop(Iteration(s), fuel - 1)

hubbub_tokeniser_run(s) == RunLoop(Ret(s, TRUE), MaxIterations)

ContentModels == {"PCDATA", "RCDATA", "CDATA", "PLAINTEXT"}

\* hubbub_tokeniser_create, then setopt of the token handler and of the
\* initial content model.
CreatedTokeniser(model, handler) ==
    [state |-> "DATA", content_model |-> model, token_handler |-> handler,
     buffer_handler |-> "NULL", error_handler |-> "NULL",
     alloc |-> "OK", null_write |-> "TRAPS", attributes_null |-> TRUE,
     oom |-> [failed |-> FALSE, stored_null |-> FALSE, wrote_null |-> FALSE,
              lost_array |-> FALSE],
     current_tag_type |-> "CHARACTER",
     current_tag |-> [name |-> NoSpan, n_attributes |-> 0, attributes |-> <<>>,
                      self_closing |-> FALSE],
     current_comment |-> NoSpan,
     current_doctype |-> [name |-> NoSpan, correct |-> FALSE],
     current_chars |-> NoSpan,
     prev_state |-> "DATA",
     close_tag_match |-> NoSpan,
     match_doctype |-> [count |-> 0],
     match_entity |-> [str |-> NoSpan, base |-> 0, codepoint |-> U32(0),
                       had_data |-> FALSE, return_state |-> "DATA",
                       complete |-> FALSE, done_setup |-> FALSE,
                       context |-> <<>>, prev_len |-> 0],
     aborted |-> FALSE]

EmptyStream == [buf |-> <<>>, cur |-> 0, eof |-> FALSE, replaced |-> <<>>]

\* The tokens of a document that is wholly in the stream, end of stream
\* included, before the only call of run().
RunWhole(doc, model, handler) ==
    hubbub_tokeniser_run(
        [tok |-> CreatedTokeniser(model, handler),
         inp |-> [EmptyStream EXCEPT !.buf = doc, !.eof = TRUE],
         out |-> <<>>, cont |-> FALSE]).out

(***************************************************************************)
(* The state machine: the embedder's calls and the dispatch loop           *)
(***************************************************************************)
Machine == [tok |-> tok, inp |-> inp, out |-> out, cont |-> cont]

\* A tokeniser created on an empty stream for one of the documents docs,
\* with one of the content models and token handlers given; the embedder
\* will supply the document in pieces of one of the sizes chunks.
\* The tokeniser on its own: no treebuilder is attached to it.
NoTreebuilder == [attached |-> FALSE]

InitWith(docs, models, handlers, chunks) ==
    /\ tb = NoTreebuilder
    /\ orig \in docs
    /\ pending = orig
    /\ cm0 \in models
    /\ chunk \in chunks
    /\ opts = 0
    /\ \E h \in handlers : tok = CreatedTokeniser(cm0, h)
    /\ inp = EmptyStream
    /\ out = <<>>
    /\ cont = FALSE
    /\ last = [op |-> "create", moved |-> FALSE, changed |-> FALSE,
               cont |-> FALSE, emitted |-> 0]

\* The effect of one iteration of the dispatch loop whose handler gave r.
Apply(r) ==
    /\ tok' = r.tok
    /\ inp' = r.inp
    /\ out' = r.out
    /\ cont' = r.cont
    /\ last' = [op |-> tok.state, moved |-> r.inp.cur # inp.cur,
                changed |-> r.tok.state # tok.state, cont |-> r.cont,
                emitted |-> Len(r.out) - Len(out)]
    /\ UNCHANGED <<pending, orig, cm0, chunk, opts, tb>>

\* The dispatch loop is at the case of state st.
Running(st) == cont /\ tok.state = st

Called(op) == [op |-> op, moved |-> FALSE, changed |-> FALSE, cont |-> TRUE,
               emitted |-> 0]

\* The embedder appends the next piece of the document to the stream and
\* calls hubbub_tokeniser_run.
FeedRun ==
    /\ ~cont /\ ~tok.aborted /\ ~inp.eof
    /\ pending # <<>>
    /\ LET k == IF chunk = 0 \/ chunk > Len(pending) THEN Len(pending) ELSE chunk
       IN  /\ inp' = [inp EXCEPT !.buf = @ \o SubSeq(pending, 1, k)]
           /\ pending' = SubSeq(pending, k + 1, Len(pending))
    /\ cont' = TRUE
    /\ last' = Called("feed")
    /\ UNCHANGED <<tok, out, orig, cm0, chunk, opts, tb>>

\* The embedder marks the end of the stream and calls hubbub_tokeniser_run.
EofRun ==
    /\ ~cont /\ ~tok.aborted /\ ~inp.eof
    /\ pending = <<>>
    /\ inp' = [inp EXCEPT !.eof = TRUE]
    /\ cont' = TRUE
    /\ last' = Called("eof")
    /\ UNCHANGED <<tok, out, pending, orig, cm0, chunk, opts, tb>>

MaxSetopt == 1

\* hubbub_tokeniser_setopt(HUBBUB_TOKENISER_CONTENT_MODEL) between two
\* calls of run().
SetContentModel ==
    /\ ~cont /\ ~tok.aborted /\ ~inp.eof
    /\ opts < MaxSetopt
    /\ \E m \in ContentModels :
            /\ m # tok.content_model
            /\ tok' = [tok EXCEPT !.content_model = m]
    /\ opts' = opts + 1
    /\ last' = [Called("setopt") EXCEPT !.cont = FALSE]
    /\ UNCHANGED <<inp, out, cont, pending, orig, cm0, chunk, tb>>

RunData == Running("DATA") /\ Apply(Aborting(handle_data(Machine)))
RunEntityData ==
    Running("ENTITY_DATA") /\ Apply(Aborting(handle_entity_data(Machine)))
RunTagOpen == Running("TAG_OPEN") /\ Apply(Aborting(handle_tag_open(Machine)))
RunCloseTagOpen ==
    Running("CLOSE_TAG_OPEN") /\ Apply(Aborting(handle_close_tag_open(Machine)))
RunCloseTagMatch ==
    Running("CLOSE_TAG_MATCH") /\ Apply(Aborting(handle_close_tag_match(Machine)))
RunTagName == Running("TAG_NAME") /\ Apply(Aborting(handle_tag_name(Machine)))
RunBeforeAttributeName ==
    /\ Running("BEFORE_ATTRIBUTE_NAME")
    /\ Apply(Aborting(handle_before_attribute_name(Machine)))
RunAttributeName ==
    Running("ATTRIBUTE_NAME") /\ Apply(Aborting(handle_attribute_name(Machine)))
RunAfterAttributeName ==
    /\ Running("AFTER_ATTRIBUTE_NAME")
    /\ Apply(Aborting(handle_after_attribute_name(Machine)))
RunBeforeAttributeValue ==
    /\ Running("BEFORE_ATTRIBUTE_VALUE")
    /\ Apply(Aborting(handle_before_attribute_value(Machine)))
RunAttributeValueDq ==
    /\ Running("ATTRIBUTE_VALUE_DQ")
    /\ Apply(Aborting(handle_attribute_value_dq(Machine)))
RunAttributeValueSq ==
    /\ Running("ATTRIBUTE_VALUE_SQ")
    /\ Apply(Aborting(handle_attribute_value_sq(Machine)))
RunAttributeValueUq ==
    /\ Running("ATTRIBUTE_VALUE_UQ")
    /\ Apply(Aborting(handle_attribute_value_uq(Machine)))
RunEntityInAttributeValue ==
    /\ Running("ENTITY_IN_ATTRIBUTE_VALUE")
    /\ Apply(Aborting(handle_entity_in_attribute_value(Machine)))
RunBogusComment ==
    Running("BOGUS_COMMENT") /\ Apply(Aborting(handle_bogus_comment(Machine)))
RunMarkupDeclarationOpen ==
    /\ Running("MARKUP_DECLARATION_OPEN")
    /\ Apply(Aborting(handle_markup_declaration_open(Machine)))
RunCommentStart ==
    Running("COMMENT_START") /\ Apply(Aborting(handle_comment_start(Machine)))
RunComment == Running("COMMENT") /\ Apply(Aborting(handle_comment(Machine)))
RunCommentDash ==
    Running("COMMENT_DASH") /\ Apply(Aborting(handle_comment_dash(Machine)))
RunCommentEnd ==
    Running("COMMENT_END") /\ Apply(Aborting(handle_comment_end(Machine)))
RunMatchDoctype ==
    Running("MATCH_DOCTYPE") /\ Apply(Aborting(handle_match_doctype(Machine)))
RunDoctype == Running("DOCTYPE") /\ Apply(Aborting(handle_doctype(Machine)))
RunBeforeDoctypeName ==
    /\ Running("BEFORE_DOCTYPE_NAME")
    /\ Apply(Aborting(handle_before_doctype_name(Machine)))
RunDoctypeName ==
    Running("DOCTYPE_NAME") /\ Apply(Aborting(handle_doctype_name(Machine)))
RunAfterDoctypeName ==
    /\ Running("AFTER_DOCTYPE_NAME")
    /\ Apply(Aborting(handle_after_doctype_name(Machine)))
RunBogusDoctype ==
    Running("BOGUS_DOCTYPE") /\ Apply(Aborting(handle_bogus_doctype(Machine)))
RunNumberedEntity ==
    Running("NUMBERED_ENTITY") /\ Apply(Aborting(handle_numbered_entity(Machine)))
RunNamedEntity ==
    Running("NAMED_ENTITY") /\ Apply(Aborting(handle_named_entity(Machine)))

\* The parse is over: the end of the stream was signalled and run() returned.
Finished == ~cont /\ inp.eof /\ ~tok.aborted

\* Sets of byte sequences: every concatenation of one member of each.
Cat(A, B) == {a \o b : a \in A, b \in B}

RECURSIVE UpTo(_, _)
\* The sequences of at most n members of the set of byte sequences A.
UpTo(A, n) == IF n = 0 THEN {<<>>} ELSE {<<>>} \cup Cat(A, UpTo(A, n - 1))

(***************************************************************************)
(* Tags with repeated attribute names                                      *)
(***************************************************************************)
MaxAttrs == 5

AttrNames == {Bytes(<<"a">>), Bytes(<<"b">>)}

\* The i-th attribute of a tag: a name, alone or with the value i.
AttrSources(i) ==
    Cat({Bytes(<<" ">>)},
        Cat(AttrNames, {<<>>, <<Ch("="), Ch("0") + i>>}))

RECURSIVE AttrLists(_)
\* The attribute lists that begin with the i-th attribute of a tag.
AttrLists(i) ==
    IF i > MaxAttrs THEN {<<>>}
    ELSE {<<>>} \cup Cat(AttrSources(i), AttrLists(i + 1))

TagDocs ==
    Cat({Bytes(<<"<", "p">>), Bytes(<<"<", "/", "p">>)},
        Cat(AttrLists(1), {Bytes(<<">">>)}))

InitAttrs == InitWith(TagDocs, {"PCDATA"}, {"RECORD"}, {0, 1})

NextAttrs ==
    \/ FeedRun
    \/ EofRun
    \/ RunData
    \/ RunTagOpen
    \/ RunCloseTagOpen
    \/ RunTagName
    \/ RunBeforeAttributeName
    \/ RunAttributeName
    \/ RunAfterAttributeName
    \/ RunBeforeAttributeValue
    \/ RunAttributeValueUq

SpecAttrs == InitAttrs /\ [][NextAttrs]_vars

TagTokens == {i \in 1..Len(out) : IsTag(out[i])}

\* C3: every start-tag or end-tag token delivered to the token handler has
\* pairwise distinct attribute names, compared byte for byte.
C3_DistinctAttributeNames ==
    \A t \in TagTokens :
        \A i, j \in 1..Len(out[t].attrs) :
            i # j => out[t].attrs[i].name # out[t].attrs[j].name

\* The attributes of the list given whose name no earlier one carries.
FirstOccurrences(given) ==
    LET keep == {i \in 1..Len(given) :
                    \A j \in 1..(i - 1) : given[j].name # given[i].name}
        Nth(k) == CHOOSE i \in keep : Cardinality({j \in keep : j < i}) = k - 1
    IN  [k \in 1..Cardinality(keep) |-> given[Nth(k)]]

\* C4: the token of a tag carries, for each attribute name of the tag, the
\* first attribute of that name with its own value, and nothing else, in
\* the order of the source.
C4_KeepsFirstOccurrences ==
    \A t \in TagTokens : out[t].attrs = FirstOccurrences(out[t].given)

\* A tag with a repeated name whose token is as C4 says (`<p a=1 a=2>`).
C4_RepeatedNameCase ==
    \E t \in TagTokens :
        /\ Len(out[t].given) = 2
        /\ out[t].given[1].name = out[t].given[2].name
        /\ out[t].given[1].value # out[t].given[2].value
        /\ out[t].attrs = <<out[t].given[1]>>

(***************************************************************************)
(* One chunk against byte by byte                                          *)
(***************************************************************************)
MaxTail == 2

\* The beginnings of the documents: one for each construct of the syntax.
Contexts ==
    { <<>>,
      Bytes(<<"<", "p">>),
      Bytes(<<"<", "p", " ", "a">>),
      Bytes(<<"<", "p", " ", "a", "=">>),
      Bytes(<<"<", "p", " ", "a", "=", "\"">>),
      Bytes(<<"<", "p", " ", "a", "=", "'">>),
      Bytes(<<"<", "s", ">", "x", "<", "/">>),
      Bytes(<<"<", "s", ">", "<", "/", "S">>),
      Bytes(<<"<", "!", "-", "-">>),
      Bytes(<<"<", "!", "-", "-", "x", "-">>),
      Bytes(<<"<", "!", "d", "o", "c", "T", "Y", "P">>),
      Bytes(<<"<", "!", "D", "O", "C", "T", "Y", "P", "E">>),
      Bytes(<<"<", "!", "D", "O", "C", "T", "Y", "P", "E", " ", "h">>),
      Bytes(<<"<", "!", "D", "O", "C", "T", "Y", "P", "E", "h", " ">>),
      Bytes(<<"<", "?">>),
      Bytes(<<"x", "&", "#">>),
      Bytes(<<"&", "#", "x", "2">>),
      Bytes(<<"&", "a", "m", "p">>),
      Bytes(<<"x", "&", "o", "r">>) }

\* The bytes the documents go on with.
Alphabet ==
    {Bytes(<<c>>) : c \in {"<", "/", ">", "a", "E", " ", "=", "\"", "'", "&",
                           "#", ";", "-", "1", "!", "d"}}

Docs == Cat(Contexts, UpTo(Alphabet, MaxTail))

Init ==
    \/ InitWith(Docs, ContentModels, {"RECORD"}, {0, 1})
    \/ InitWith(Docs, {"PCDATA"}, {"RCDATA", "CDATA"}, {0, 1})

Next ==
    \/ FeedRun
    \/ EofRun
    \/ RunData
    \/ RunEntityData
    \/ RunTagOpen
    \/ RunCloseTagOpen
    \/ RunCloseTagMatch
    \/ RunTagName
    \/ RunBeforeAttributeName
    \/ RunAttributeName
    \/ RunAfterAttributeName
    \/ RunBeforeAttributeValue
    \/ RunAttributeValueDq
    \/ RunAttributeValueSq
    \/ RunAttributeValueUq
    \/ RunEntityInAttributeValue
    \/ RunBogusComment
    \/ RunMarkupDeclarationOpen
    \/ RunCommentStart
    \/ RunComment
    \/ RunCommentDash
    \/ RunCommentEnd
    \/ RunMatchDoctype
    \/ RunDoctype
    \/ RunBeforeDoctypeName
    \/ RunDoctypeName
    \/ RunAfterDoctypeName
    \/ RunBogusDoctype
    \/ RunNumberedEntity
    \/ RunNamedEntity

Spec == Init /\ [][Next]_vars

\* What a token handler is given to read: type, text and attributes.
View(t) == [type |-> t.type, text |-> t.text, attrs |-> t.attrs]
Views(ts) == [i \in 1..Len(ts) |-> View(ts[i])]

RECURSIVE Merged(_)
\* The tokens vs with every run of adjacent Character tokens made one
\* Character token of the concatenated text.
Merged(vs) ==
    IF Len(vs) < 2 THEN vs
    ELSE LET rest == Merged(Tail(vs))
         IN  IF vs[1].type = "CHARACTER" /\ rest[1].type = "CHARACTER"
             THEN <<[vs[1] EXCEPT !.text = @ \o rest[1].text]>> \o Tail(rest)
             ELSE <<vs[1]>> \o rest

\* The tokens of the document when all of it is in the stream first.
InOneChunk == Views(RunWhole(orig, cm0, tok.token_handler))

MaxProgressDoc == 3

ProgressDocs ==
    UpTo({Bytes(<<c>>) : c \in {"<", "/", "a", ">", "&", " "}}, MaxProgressDoc)
        \cup {Bytes(<<"<", "a", " ", "a", " ", ">">>)}

InitProgress ==
    InitWith(ProgressDocs, ContentModels, {"RECORD", "PLAINTEXT"}, {1})

NextProgress ==
    \/ FeedRun
    \/ EofRun
    \/ SetContentModel
    \/ RunData
    \/ RunEntityData
    \/ RunNamedEntity
    \/ RunTagOpen
    \/ RunCloseTagOpen
    \/ RunCloseTagMatch
    \/ RunTagName
    \/ RunBeforeAttributeName
    \/ RunAttributeName
    \/ RunAfterAttributeName
    \/ RunBogusComment

SpecProgress == InitProgress /\ [][NextProgress]_vars

\* The last step was an iteration of the dispatch loop.
Iterated == last.op \notin {"create", "feed", "eof", "setopt"}

\* C2: an iteration of the dispatch loop that does not end the call of
\* run() has moved the input cursor or changed the tokeniser's state.
C2_EveryIterationProgresses ==
    Iterated => (last.moved \/ last.changed \/ ~last.cont)

(***************************************************************************)
(* Doctypes                                                                *)
(***************************************************************************)
DoctypeNames ==
    { <<>>, Bytes(<<"h", "t", "m", "l">>), Bytes(<<"H", "t", "M", "l">>),
      Bytes(<<"h", "t", "m">>), Bytes(<<"h", "t", "m", "l", "x">>),
      Bytes(<<"x">>) }

DoctypeDocs ==
    Cat({Bytes(<<"<", "!", "D", "O", "C", "T", "Y", "P", "E">>),
         Bytes(<<"<", "!", "d", "o", "c", "t", "y", "p", "e">>)},
        Cat({<<>>, Bytes(<<" ">>)},
            Cat(DoctypeNames,
                Cat({<<>>, Bytes(<<" ">>), Bytes(<<" ", "x">>)},
                    {<<>>, Bytes(<<">">>)}))))

InitDoctype == InitWith(DoctypeDocs, {"PCDATA"}, {"RECORD"}, {0, 1})

NextDoctype ==
    \/ FeedRun
    \/ EofRun
    \/ RunData
    \/ RunTagOpen
    \/ RunMarkupDeclarationOpen
    \/ RunMatchDoctype
    \/ RunDoctype
    \/ RunBeforeDoctypeName
    \/ RunDoctypeName
    \/ RunAfterDoctypeName
    \/ RunBogusDoctype

SpecDoctype == InitDoctype /\ [][NextDoctype]_vars

DoctypeTokens == {i \in 1..Len(out) : out[i].type = "DOCTYPE"}

\* The name of the token is HTML in some mixture of cases.
NamedHtml(d) == LowerSeq(d.text) = LowerSeq(HtmlName)

\* C5 as stated: a doctype token is correct exactly when its name is HTML,
\* whichever state emits it and whether it ends at `>` or at EOF.
C5_CorrectIffNamedHtml ==
    \A i \in DoctypeTokens : out[i].correct <=> NamedHtml(out[i])

\* C5 amended: a doctype token is correct exactly when its name is HTML and
\* the doctype-name or after-doctype-name state emits it at `>`.
C5_CorrectIffNamedHtmlEndedInName ==
    \A i \in DoctypeTokens :
        out[i].correct <=>
            /\ NamedHtml(out[i])
            /\ out[i].by \in {"DOCTYPE_NAME", "AFTER_DOCTYPE_NAME"}
            /\ out[i].at = Ch(">")

\* Both outcomes for the name HTML: a correct doctype, and one that is not.
C5_HtmlDoctypeCase ==
    \E i \in DoctypeTokens :
        /\ NamedHtml(out[i])
        /\ out[i].correct
        /\ out[i].by = "AFTER_DOCTYPE_NAME"

(***************************************************************************)
(* Close tags in CDATA and RCDATA                                          *)
(***************************************************************************)
MaxCandidate == 3

Slash == Bytes(<<"<", "/">>)

\* Letters of the names, and every byte that may end a tag name.
CandidateAlphabet ==
    {Bytes(<<c>>) : c \in {"s", "S", "c", "x", ">", "/", "<", " ", "\t", "\n"}}
        \cup {<<VT>>, <<FF>>}

\* An element whose start tag makes the token handler switch the content
\* model, some text, then `</` and what follows it.
CloseTagDocs ==
    Cat({Bytes(<<"<", "s", ">">>), Bytes(<<"<", "S", "c", ">">>)},
        Cat({<<>>, Bytes(<<"x">>)},
            Cat({Slash}, UpTo(CandidateAlphabet, MaxCandidate))))
    \cup {Bytes(<<"<", "s", "c", "r", "i", "p", "t", ">",
                  "<", "/", "s", "c", "r", "i", "p", "t", "x", ">">>)}

InitCloseTag == InitWith(CloseTagDocs, {"PCDATA"}, {"RCDATA", "CDATA"}, {0, 1})

NextCloseTag ==
    \/ FeedRun
    \/ EofRun
    \/ RunData
    \/ RunTagOpen
    \/ RunTagName
    \/ RunCloseTagOpen
    \/ RunCloseTagMatch
    \/ RunBeforeAttributeName
    \/ RunAttributeName

SpecCloseTag == InitCloseTag /\ [][NextCloseTag]_vars

\* The document read as  <name> text </ rest : where its first `>` and its
\* first `</` are.
FirstAt(doc, piece) ==
    CHOOSE i \in 1..(Len(doc) - Len(piece) + 1) :
        /\ SubSeq(doc, i, i + Len(piece) - 1) = piece
        /\ \A j \in 1..(i - 1) : SubSeq(doc, j, j + Len(piece) - 1) # piece

OpenName == LowerSeq(SubSeq(orig, 2, FirstAt(orig, Bytes(<<">">>)) - 1))
OpenText == SubSeq(orig, FirstAt(orig, Bytes(<<">">>)) + 1, FirstAt(orig, Slash) - 1)
AfterSlash == SubSeq(orig, FirstAt(orig, Slash) + 2, Len(orig))

TagTerminators ==
    {Ch("\t"), Ch("\n"), VT, FF, Ch(" "), Ch(">"), Ch("/"), Ch("<")}

\* The text after the first `</` is the name of the open element, in any
\* case, and a tag terminator or the end of the document follows it.
CandidateMatches ==
    /\ Len(AfterSlash) >= Len(OpenName)
    /\ LowerSeq(SubSeq(AfterSlash, 1, Len(OpenName))) = OpenName
    /\ \/ Len(AfterSlash) = Len(OpenName)
       \/ AfterSlash[Len(OpenName) + 1] \in TagTerminators

\* The document has no `</` but the first.
OneCloseTag ==
    \A i \in 1..(Len(AfterSlash) - 1) : SubSeq(AfterSlash, i, i + 1) # Slash

\* The close-tag-match state has just given up, or just accepted.
Rejected == last.op = "CLOSE_TAG_MATCH" /\ tok.state = "DATA"
Accepted == last.op = "CLOSE_TAG_MATCH" /\ tok.state = "CLOSE_TAG_OPEN"

\* Offset of the byte after the first `</` of the document.
PastSlash == FirstAt(orig, Slash) + 1

StartTagView == [type |-> "START_TAG", text |-> OpenName, attrs |-> <<>>]
EofView == [type |-> "EOF", text |-> <<>>, attrs |-> <<>>]
CharacterView(text) == [type |-> "CHARACTER", text |-> text, attrs |-> <<>>]

\* C6 as stated: when the candidate does not match, the text from `</` on
\* is delivered as one Character token.
C6_RejectedTextIsOneToken ==
    (Finished /\ chunk = 0 /\ ~CandidateMatches /\ OneCloseTag) =>
        \E i \in 1..Len(out) : View(out[i]) = CharacterView(Slash \o AfterSlash)

\* C6 amended: when the candidate does not match, no tag is emitted, the
\* content model stays, the cursor goes back to just after `</`, a
\* Character token `</` is emitted at once and the rest of the text follows
\* as character data.
C6_RejectedTextIsCharacterData ==
    /\ Rejected =>
            /\ tok.content_model = tok.token_handler
            /\ SubSeq(inp.buf, inp.cur - 1, inp.cur) = Slash
            /\ last.emitted = 1
            /\ View(out[Len(out)]) = CharacterView(Slash)
    /\ (Rejected /\ inp.cur = PastSlash) => ~CandidateMatches
    /\ (Finished /\ ~CandidateMatches /\ OneCloseTag) =>
            /\ tok.content_model = tok.token_handler
            /\ Merged(Views(out)) =
                    <<StartTagView, CharacterView(OpenText \o Slash \o AfterSlash),
                      EofView>>

\* `</scriptx>` in an open script element, supplied in one chunk.
C6_ScriptxCase ==
    /\ Finished /\ chunk = 0
    /\ tok.content_model = "CDATA"
    /\ Views(out) =
            <<[type |-> "START_TAG", text |-> Bytes(<<"s", "c", "r", "i", "p", "t">>),
               attrs |-> <<>>],
              CharacterView(Slash),
              CharacterView(Bytes(<<"s", "c", "r", "i", "p", "t", "x", ">">>)),
              EofView>>

\* The tokens after the start tag, up to the first that is no Character.
RECURSIVE TextBefore(_, _)
TextBefore(ts, i) ==
    IF i > Len(ts) \/ ts[i].type # "CHARACTER" THEN <<>>
    ELSE ts[i].text \o TextBefore(ts, i + 1)

FirstNonCharacter(ts) ==
    CHOOSE i \in 2..(Len(ts) + 1) :
        /\ i <= Len(ts) => ts[i].type # "CHARACTER"
        /\ \A j \in 2..(i - 1) : ts[j].type = "CHARACTER"

\* C7: when the candidate matches, the content model becomes PCDATA and the
\* next token that is not the element's text is the end tag of that name,
\* however the candidate is split over calls of run().
C7_MatchedCandidateClosesElement ==
    /\ Accepted => tok.content_model = "PCDATA"
    /\ (Accepted /\ inp.cur = PastSlash) => CandidateMatches
    /\ (Finished /\ CandidateMatches) =>
            LET k == FirstNonCharacter(out)
            IN  /\ View(out[1]) = StartTagView
                /\ TextBefore(out, 2) = OpenText
                /\ k <= Len(out)
                /\ out[k].type = "END_TAG"
                /\ out[k].text = OpenName

\* A candidate written in another case than the start tag and supplied byte
\* by byte, that closed the element.
C7_SplitCandidateCase ==
    /\ Finished /\ chunk = 1 /\ CandidateMatches
    /\ Len(OpenName) = 2
    /\ SubSeq(AfterSlash, 1, 2) # SubSeq(orig, 2, 3)
    /\ \E i \in 1..Len(out) : out[i].type = "END_TAG"

(***************************************************************************)
(* Character references                                                    *)
(***************************************************************************)
MaxDigits == 3
MaxEntityTail == 2

DecimalSample == {Bytes(<<c>>) : c \in {"0", "1", "2", "5", "8", "9"}}
HexSample == {Bytes(<<c>>) : c \in {"0", "1", "8", "9", "a", "f", "F"}}

\* Digit strings at the limits of the mapping and of the accumulator.
LimitBodies ==
    { Bytes(<<"1", "1", "1", "4", "1", "1", "1">>),
      Bytes(<<"1", "1", "1", "4", "1", "1", "2">>),
      Bytes(<<"x", "1", "0", "F", "F", "F", "F">>),
      Bytes(<<"X", "1", "1", "0", "0", "0", "0">>),
      Bytes(<<"4", "2", "9", "4", "9", "6", "7", "2", "9", "7">>),
      Bytes(<<"x", "1", "0", "0", "0", "0", "0", "0", "4", "1">>) }

NumericDocs ==
    Cat({Bytes(<<"&", "#">>)},
        Cat(UpTo(DecimalSample, MaxDigits)
                \cup Cat({Bytes(<<"x">>), Bytes(<<"X">>)},
                         UpTo(HexSample, MaxDigits - 1))
                \cup LimitBodies,
            {<<>>, Bytes(<<";">>), Bytes(<<"x">>)}))

\* The entity names and their beginnings.
NamePrefixes ==
    UNION {{SubSeq(e.name, 1, n) : n \in 0..Len(e.name)} : e \in EntityTable}

NamedDocs ==
    Cat({Bytes(<<"&">>)},
        Cat(NamePrefixes,
            UpTo({Bytes(<<c>>) : c \in {";", "x", "d"}}, MaxEntityTail)))

\* Where the reference stands: in text, or in an attribute value.
EntityContexts ==
    { <<>>, Bytes(<<"y">>), Bytes(<<"<", "p", " ", "a", "=", "\"">>),
      Bytes(<<"<", "p", " ", "a", "=", "'">>),
      Bytes(<<"<", "p", " ", "a", "=">>) }

EntityDocs == Cat(EntityContexts, NumericDocs \cup NamedDocs)

InitEntity == InitWith(EntityDocs, {"PCDATA"}, {"RECORD"}, {0, 1})

NextEntity ==
    \/ FeedRun
    \/ EofRun
    \/ RunData
    \/ RunEntityData
    \/ RunNumberedEntity
    \/ RunNamedEntity
    \/ RunTagOpen
    \/ RunTagName
    \/ RunBeforeAttributeName
    \/ RunAttributeName
    \/ RunBeforeAttributeValue
    \/ RunAttributeValueDq
    \/ RunAttributeValueSq
    \/ RunAttributeValueUq
    \/ RunEntityInAttributeValue

SpecEntity == InitEntity /\ [][NextEntity]_vars

\* The reference as the document spells it: `&` at AmpAt, AfterAmp
\* behind it, the context in front of it.
AmpAt == FirstAt(orig, Bytes(<<"&">>))
AfterAmp == SubSeq(orig, AmpAt + 1, Len(orig))
InText == AmpAt <= 2

IsNumericRef == Len(AfterAmp) >= 1 /\ AfterAmp[1] = Ch("#")
IsHexRef ==
    IsNumericRef /\ Len(AfterAmp) >= 2 /\ AfterAmp[2] \in {Ch("x"), Ch("X")}
RefBase == IF IsHexRef THEN 16 ELSE 10
FirstDigitAt == IF IsHexRef THEN 3 ELSE 2

\* The value of a digit character, -1 for any other character.
DigitOf(c) ==
    IF c >= 48 /\ c <= 57 THEN c - 48
    ELSE IF c >= 97 /\ c <= 102 THEN c - 87
    ELSE IF c >= 65 /\ c <= 70 THEN c - 55
    ELSE 0 - 1

IsRefDigit(c) == DigitOf(c) >= 0 /\ DigitOf(c) < RefBase

RECURSIVE DigitRun(_)
\* How many digits of the base stand at position i of AfterAmp and on.
DigitRun(i) ==
    IF i <= Len(AfterAmp) /\ IsRefDigit(AfterAmp[i]) THEN 1 + DigitRun(i + 1) ELSE 0

DigitCount == DigitRun(FirstDigitAt)

RECURSIVE DigitsValue(_)
\* The number the first n digits spell, modulo 2^32, in 16-bit halves.
DigitsValue(n) ==
    IF n = 0 THEN [hi |-> 0, lo |-> 0]
    ELSE LET v == DigitsValue(n - 1)
             low == v.lo * RefBase + DigitOf(AfterAmp[FirstDigitAt + n - 1])
         IN  [hi |-> (v.hi * RefBase + low \div 65536) % 65536,
              lo |-> low % 65536]

\* The codepoint C8 gives for the digits of the document.
ExpectedNumeric ==
    LET v == DigitsValue(DigitCount) IN
    IF v.hi = 0 /\ v.lo >= 128 /\ v.lo <= 159 THEN cp1252Table[v.lo - 127]
    ELSE IF (v.hi = 0 /\ v.lo = 0) \/ v.hi >= 17 THEN 65533
    ELSE v.hi * 65536 + v.lo

\* The entity names the text after `&` begins with, and the longest.
NamesAhead == {e \in EntityTable : IsPrefix(e.name, AfterAmp)}
LongestAhead ==
    CHOOSE e \in NamesAhead : \A f \in NamesAhead : Len(f.name) <= Len(e.name)

RefMatched == IF IsNumericRef THEN DigitCount > 0 ELSE NamesAhead # {}
RefCodepoint == IF IsNumericRef THEN ExpectedNumeric ELSE LongestAhead.cp

\* Bytes of the matched text without a semicolon, `&` included.
RefBareLen ==
    IF IsNumericRef THEN FirstDigitAt + DigitCount ELSE 1 + Len(LongestAhead.name)

\* A semicolon stands right behind the matched text.
RefSemicolon ==
    RefBareLen <= Len(AfterAmp) /\ AfterAmp[RefBareLen] = Ch(";")

RefLen == RefBareLen + (IF RefSemicolon THEN 1 ELSE 0)

\* What is left of the document behind the matched text.
RefRest == SubSeq(orig, AmpAt + RefLen, Len(orig))

\* The text from the `&` on as it is to be delivered.
ExpectedFromAmp ==
    IF RefMatched THEN Utf8Encode(RefCodepoint) \o RefRest
    ELSE SubSeq(orig, AmpAt, Len(orig))

RECURSIVE CharacterText(_, _)
\* The texts of the Character tokens of ts from the i-th on, joined.
CharacterText(ts, i) ==
    IF i > Len(ts) THEN <<>>
    ELSE (IF ts[i].type = "CHARACTER" THEN ts[i].text ELSE <<>>)
            \o CharacterText(ts, i + 1)

\* The document was delivered with the reference resolved: as character
\* data, or as the value of the attribute it stands in.
Delivered ==
    IF InText
    THEN CharacterText(out, 1) = SubSeq(orig, 1, AmpAt - 1) \o ExpectedFromAmp
    ELSE /\ out[1].type = "START_TAG"
         /\ Len(out[1].attrs) = 1
         /\ out[1].attrs[1].value = ExpectedFromAmp

\* C8: the digits of a numeric reference are replaced by one codepoint:
\* the cp1252 entry for 0x80..0x9F, U+FFFD for 0 and above 0x10FFFF, else
\* the accumulated value.
C8_NumericReferenceMapping ==
    /\ (IsNumericRef /\ inp.replaced # <<>>) =>
            /\ DigitCount > 0
            /\ inp.replaced[1].cp = ExpectedNumeric
    /\ (Finished /\ IsNumericRef /\ DigitCount > 0) =>
            /\ Len(inp.replaced) = 1
            /\ Delivered

\* `&#128;` as the whole document gave the one character U+20AC.
C8_EuroCase ==
    /\ Finished
    /\ orig = Bytes(<<"&", "#", "1", "2", "8", ";">>)
    /\ Views(out) = <<CharacterView(<<226, 130, 172>>), EofView>>

\* C9 as stated: the substituted character and the bytes rewound behind it
\* are delivered as one Character token (`&ampx` as Character("&x")).
C9_RewoundBytesInSameToken ==
    (Finished /\ chunk = 0 /\ InText /\ ~IsNumericRef /\ RefMatched
        /\ RefRest # <<>>) =>
        \E i \in 1..Len(out) : View(out[i]) = CharacterView(ExpectedFromAmp)

\* C9 amended: the longest entity name the text after `&` begins with is
\* substituted; the character is a Character token of its own and the
\* bytes read beyond the name are delivered after it as character data.
C9_LongestNameSubstituted ==
    /\ (~IsNumericRef /\ inp.replaced # <<>>) =>
            /\ NamesAhead # {}
            /\ inp.replaced[1].cp = LongestAhead.cp
    /\ (Finished /\ ~IsNumericRef /\ NamesAhead # {}) =>
            /\ Len(inp.replaced) = 1
            /\ Delivered
            /\ InText =>
                \E i \in 1..Len(out) :
                    /\ View(out[i]) = CharacterView(Utf8Encode(LongestAhead.cp))
                    /\ CharacterText(out, i + 1) = RefRest

\* `&ord` and more: the search read past `or`, which was substituted.
C9_ReadBeyondCase ==
    /\ Finished /\ InText
    /\ IsPrefix(Bytes(<<"o", "r", "d", "x">>), AfterAmp)
    /\ inp.replaced # <<>>
    /\ inp.replaced[1].cp = 8744
    /\ CharacterText(out, 1) = SubSeq(orig, 1, AmpAt - 1) \o ExpectedFromAmp

\* C10: a substitution replaces the bytes from the `&` to the end of the
\* matched text, a semicolon right behind it included, and nothing else;
\* with nothing matched nothing is replaced and the `&` is delivered.
C10_ReplacedRangeIsMatchedText ==
    /\ Len(inp.replaced) <= 1
    /\ inp.replaced # <<>> =>
            /\ RefMatched
            /\ inp.replaced[1].off = AmpAt - 1
            /\ inp.replaced[1].len = RefLen
    /\ (Finished /\ ~RefMatched) =>
            /\ inp.replaced = <<>>
            /\ Delivered

\* A name with bytes read beyond it and then a semicolon, which stays.
C10_SemicolonLeftCase ==
    /\ Finished
    /\ IsPrefix(Bytes(<<"o", "r", "d", ";">>), AfterAmp)
    /\ inp.replaced = <<[off |-> AmpAt - 1, len |-> 3, cp |-> 8744]>>

\* The state that saw the `&`, and the attribute-value state it stands in.
CallerState == IF InText THEN "ENTITY_DATA" ELSE "ENTITY_IN_ATTRIBUTE_VALUE"
QuotingState ==
    IF orig[AmpAt - 1] = Ch("\"") THEN "ATTRIBUTE_VALUE_DQ"
    ELSE IF orig[AmpAt - 1] = Ch("'") THEN "ATTRIBUTE_VALUE_SQ"
    ELSE "ATTRIBUTE_VALUE_UQ"

EntityStates == {"NUMBERED_ENTITY", "NAMED_ENTITY"}

\* C11: a sub-machine that completes puts the tokeniser in the state held
\* in match_entity.return_state, the state that saw the `&`; from an
\* attribute value the tokeniser goes on in the quoting state the `&` stood
\* in, however often the input ran out on the way.
C11_EntityResumesCaller ==
    /\ (last.op \in EntityStates /\ last.changed) =>
            /\ tok.match_entity.complete
            /\ tok.match_entity.return_state = CallerState
            /\ tok.state = CallerState
    /\ (last.op = "ENTITY_IN_ATTRIBUTE_VALUE" /\ last.changed
            /\ tok.state \notin EntityStates) =>
            /\ ~InText
            /\ tok.state = QuotingState
    /\ Finished => (tok.state = "DATA" /\ ~tok.match_entity.complete)

\* A reference in a single-quoted value, supplied byte by byte, after which
\* the single-quoted state goes on.
C11_SingleQuotedCase ==
    /\ chunk = 1
    /\ last.op = "ENTITY_IN_ATTRIBUTE_VALUE"
    /\ tok.state = "ATTRIBUTE_VALUE_SQ"
    /\ inp.replaced # <<>>

(***************************************************************************)
(* The abort() calls                                                       *)
(***************************************************************************)
\* The end of the `</` that current_chars holds during close-tag matching.
PastCloseTagOpen == tok.current_chars.off + tok.current_chars.len

\* C12: no run reaches an abort(): a completed entity match leaves a
\* character at the cursor for entity-data and entity-in-attribute-value
\* to read, and the rewind of close-tag matching goes back to the byte
\* after `</` and no further.
C12_AbortUnreachable ==
    /\ ~tok.aborted
    /\ (cont /\ tok.match_entity.complete
             /\ tok.state \in {"ENTITY_DATA", "ENTITY_IN_ATTRIBUTE_VALUE"}) =>
            Peek(Machine) \notin {OOD, EOF}
    /\ (cont /\ tok.state = "CLOSE_TAG_MATCH") =>
            inp.cur - tok.close_tag_match.len >= PastCloseTagOpen
    /\ (last.op = "CLOSE_TAG_MATCH" /\ last.changed) =>
            inp.cur = PastCloseTagOpen

\* A completed match whose character is the last of the stream, with
\* entity-data about to read it.
C12_LastCharacterCase ==
    /\ cont /\ inp.eof /\ chunk = 1
    /\ tok.state = "ENTITY_DATA"
    /\ tok.match_entity.complete
    /\ inp.replaced # <<>>
    /\ inp.cur + CurLen(Machine) = Len(inp.buf)

(***************************************************************************)
(* A DOCTYPE that does not match                                           *)
(***************************************************************************)
MaxBogusTail == 2

DoctypeWord == Bytes(<<"d", "o", "c", "t", "y", "p", "e">>)

\* The first k letters of the word: small, capital, and alternating.
WordPrefixes(k) ==
    { SubSeq(DoctypeWord, 1, k),
      [i \in 1..k |-> DoctypeWord[i] - 32],
      [i \in 1..k |-> IF i % 2 = 1 THEN DoctypeWord[i] - 32 ELSE DoctypeWord[i]] }

\* What follows the letters: no letter of the word among it.
BogusAlphabet == {Bytes(<<c>>) : c \in {"R", "r", " ", ">"}}

BogusDoctypeDocs ==
    Cat({Bytes(<<"<", "!">>)},
        Cat(UNION {WordPrefixes(k) : k \in 1..6},
            UpTo(BogusAlphabet, MaxBogusTail)
                \cup {Bytes(<<"R", " ", "h", "t", "m", "l", ">">>)}))

InitMatchDoctype == InitWith(BogusDoctypeDocs, {"PCDATA"}, {"RECORD"}, {0, 1})

NextMatchDoctype ==
    \/ FeedRun
    \/ EofRun
    \/ RunData
    \/ RunTagOpen
    \/ RunMarkupDeclarationOpen
    \/ RunMatchDoctype
    \/ RunBogusComment

SpecMatchDoctype == InitMatchDoctype /\ [][NextMatchDoctype]_vars

\* The small letter of a capital, any other byte itself.
Fold(c) == IF c >= 65 /\ c <= 90 THEN c + 32 ELSE c
Capital(c) == IF c >= 97 /\ c <= 122 THEN c - 32 ELSE c

RECURSIVE MatchedLetters(_)
\* How many letters of the word the document spells from its i-th letter
\* after `<!` on.
MatchedLetters(i) ==
    IF i <= 7 /\ i + 2 <= Len(orig) /\ Fold(orig[i + 2]) = DoctypeWord[i]
    THEN 1 + MatchedLetters(i + 1)
    ELSE 0

LettersMatched == MatchedLetters(1)

\* The document after `<!`, its matched letters in capitals.
AfterBang ==
    [i \in 1..(Len(orig) - 2) |->
        IF i <= LettersMatched THEN Capital(orig[i + 2]) ELSE orig[i + 2]]

\* The part of a text before its first `>`, all of it when it has none.
UpToTagEnd(text) ==
    IF \E i \in 1..Len(text) : text[i] = Ch(">")
    THEN SubSeq(text, 1, FirstAt(text, Bytes(<<">">>)) - 1)
    ELSE text

CommentView(text) == [type |-> "COMMENT", text |-> text, attrs |-> <<>>]

\* C13: when the match of DOCTYPE fails after k letters, the k letters are
\* in the stream again, in their order, in front of the cursor's text; the
\* state is bogus-comment; and the comment emitted is the letters and the
\* text after them up to `>`.
C13_FailedDoctypeBecomesComment ==
    /\ (last.op = "MATCH_DOCTYPE" /\ tok.state = "BOGUS_COMMENT") =>
            /\ LettersMatched \in 1..6
            /\ inp.cur = 2
            /\ SubSeq(inp.buf, 3, Len(inp.buf))
                    = SubSeq(AfterBang, 1, Len(inp.buf) - 2)
            /\ out = <<>>
    /\ (last.op = "MATCH_DOCTYPE" /\ last.changed) => tok.state = "BOGUS_COMMENT"
    /\ Finished =>
            /\ Len(out) >= 2
            /\ View(out[1]) = CommentView(UpToTagEnd(AfterBang))

\* `<!DOCTYPR html>` gave Comment("DOCTYPR html") and nothing else.
C13_DoctyprCase ==
    /\ Finished
    /\ LettersMatched = 6
    /\ Views(out) = <<CommentView(Bytes(<<"D", "O", "C", "T", "Y", "P", "R", " ",
                                          "h", "t", "m", "l">>)), EofView>>

(***************************************************************************)
(* The data state                                                          *)
(***************************************************************************)
\* The byte c ends character data in content model m.
EndsData(c, m) ==
    \/ c = Ch("&") /\ m \in {"PCDATA", "RCDATA"}
    \/ c = Ch("<") /\ m # "PLAINTEXT"

RECURSIVE DataRun(_, _, _)
\* How many bytes of buf from the i-th on are character data in model m.
DataRun(buf, i, m) ==
    IF i > Len(buf) \/ EndsData(buf[i], m) THEN 0 ELSE 1 + DataRun(buf, i + 1, m)

\* One call of the data-state handler, from the state it starts in to the
\* state it leaves: run is the character data at the cursor, c the byte
\* behind it (0 when the stream holds no more).
DataStep ==
    Running("DATA") =>
        LET m == tok.content_model
            n == DataRun(inp.buf, inp.cur + 1, m)
            stop == inp.cur + n
            run == SubSeq(inp.buf, inp.cur + 1, stop)
            c == IF stop < Len(inp.buf) THEN inp.buf[stop + 1] ELSE 0
            new == Views(SubSeq(out', Len(out) + 1, Len(out')))
            chars == IF n > 0 THEN <<CharacterView(run)>> ELSE <<>>
        IN  /\ tok'.content_model = m
            /\ inp'.buf = inp.buf
            /\ c = Ch("&") =>
                    /\ tok'.state = "ENTITY_DATA"
                    /\ inp'.cur = stop
                    /\ new = chars
            /\ c = Ch("<") =>
                    /\ tok'.state = "TAG_OPEN"
                    /\ inp'.cur = stop + 1
                    /\ new = chars
            /\ c = 0 =>
                    /\ tok'.state = "DATA"
                    /\ inp'.cur = stop
                    /\ new = chars \o (IF inp.eof THEN <<EofView>> ELSE <<>>)
            /\ m = "PLAINTEXT" => (c = 0 /\ stop = Len(inp.buf))

\* C14: the data state leaves for entity-data at an `&`, unconsumed, in
\* PCDATA and RCDATA only, and for tag-open at a `<` in every model but
\* PLAINTEXT; every other character is data, and the data before a `<` is
\* emitted as a Character token before tag-open is entered.  In PLAINTEXT
\* the data state emits Character and EOF tokens only.
C14_DataStateByContentModel == [][DataStep]_vars

\* In CDATA an `&` was data: `&amp` went out as it is before the `<`.
C14_AmpersandAsDataCase ==
    /\ last.op = "DATA"
    /\ tok.state = "TAG_OPEN"
    /\ tok.content_model = "CDATA"
    /\ Views(out) = <<CharacterView(Bytes(<<"&", "a", "m", "p">>))>>

(***************************************************************************)
(* The end of the stream                                                   *)
(***************************************************************************)
\* The call of run() in progress, taken to its return.
RunToReturn == RunLoop(Machine, MaxIterations)

EofTokens(ts) == {i \in 1..Len(ts) : ts[i].type = "EOF"}

\* C15: a call of run() that finds the end of the stream returns with the
\* tokeniser in the data state, having delivered one EOF token, the last
\* token of all.
C15_EndOfStreamEndsRun ==
    (cont /\ inp.eof) =>
        LET r == RunToReturn
        IN  /\ ~r.cont
            /\ ~r.tok.aborted
            /\ r.tok.state = "DATA"
            /\ EofTokens(r.out) = {Len(r.out)}

(***************************************************************************)
(* The order of the tokens                                                 *)
(***************************************************************************)
OneDoctype ==
    { Bytes(<<"<", "!", "D", "O", "C", "T", "Y", "P", "E", " ", "x", ">">>),
      Bytes(<<"<", "!", "D", "O", "C", "T", "Y", "P", "E", " ", "x", " ", "y", ">">>) }

\* A doctype and a second one, which may have no name.
TwoDoctypes ==
    Cat(OneDoctype,
        Cat({Bytes(<<"<", "!", "D", "O", "C", "T", "Y", "P", "E">>)},
            Cat({<<>>, Bytes(<<" ">>)},
                Cat({<<>>, Bytes(<<"y">>)}, {<<>>, Bytes(<<">">>)}))))

InitOrder == InitWith(TwoDoctypes, {"PCDATA"}, {"RECORD"}, {0, 1})

SpecOrder == InitOrder /\ [][NextDoctype]_vars

\* The ranges of the stream that the token t hands to the token handler:
\* its name or text and the names and values of its attributes.
Delivers(t) == {t.spans[k] : k \in {k \in 1..Len(t.spans) : t.spans[k].len > 0}}

\* C16: what a token hands over lies at or after the end of everything the
\* tokens before it handed over, so that no byte of the stream is handed
\* over in two tokens.
C16_TokensInInputOrder ==
    \A i, j \in 1..Len(out) :
        i < j => \A a \in Delivers(out[i]), b \in Delivers(out[j]) :
                    b.off >= a.off + a.len

(***************************************************************************)
(* An element with text                                                    *)
(***************************************************************************)
MaxText == 2

\* The names of the start tag and of the end tag that matches it.
ElementTags ==
    { <<Bytes(<<"p">>), Bytes(<<"p">>)>>, <<Bytes(<<"P">>), Bytes(<<"p">>)>>,
      <<Bytes(<<"p">>), Bytes(<<"P">>)>>, <<Bytes(<<"h", "i">>), Bytes(<<"h", "i">>)>> }

ElementTexts ==
    UpTo({Bytes(<<c>>) : c \in {"h", "i", " ", ">", "/"}}, MaxText) \ {<<>>}

ElementDocs ==
    { Bytes(<<"<">>) \o e[1] \o Bytes(<<">">>) \o text
        \o Bytes(<<"<", "/">>) \o e[2] \o Bytes(<<">">>) :
            e \in ElementTags, text \in ElementTexts }

InitElement == InitWith(ElementDocs, {"PCDATA"}, {"RECORD"}, {0, 1})

NextElement ==
    \/ FeedRun
    \/ EofRun
    \/ RunData
    \/ RunTagOpen
    \/ RunCloseTagOpen
    \/ RunTagName

SpecElement == InitElement /\ [][NextElement]_vars

EndTagView == [type |-> "END_TAG", text |-> OpenName, attrs |-> <<>>]

\* C17: a start tag, text and the matching end tag, supplied whole in
\* PCDATA, give the start tag, one Character token with the text, the end
\* tag and EOF, and nothing else.
C17_ElementWithText ==
    (Finished /\ chunk = 0) =>
        Views(out) = <<StartTagView, CharacterView(OpenText), EndTagView, EofView>>

\* `<p>hi</p>` supplied whole, at its end.
C17_ParagraphCase ==
    /\ Finished /\ chunk = 0
    /\ orig = Bytes(<<"<", "p", ">", "h", "i", "<", "/", "p", ">">>)
    /\ Len(out) = 4

(***************************************************************************)
(* hubbub_tokeniser_setopt and the entry of hubbub_tokeniser_run           *)
(***************************************************************************)
OptTypes == {"TOKEN_HANDLER", "BUFFER_HANDLER", "ERROR_HANDLER", "CONTENT_MODEL"}

\* A null pointer in the place of a tokeniser.
NullTokeniser == [null |-> TRUE]

\* hubbub_tokeniser_setopt on the tokeniser t with the parameters params
\* ("NULL" for a null pointer): the tokeniser it leaves and the code it
\* returns.
hubbub_tokeniser_setopt(t, type, params) ==
    IF t = NullTokeniser \/ params = "NULL" THEN [tok |-> t, ret |-> "BADPARM"]
    ELSE [tok |->
            CASE type = "TOKEN_HANDLER" -> [t EXCEPT !.token_handler = params]
              [] type = "BUFFER_HANDLER" -> [t EXCEPT !.buffer_handler = params]
              [] type = "ERROR_HANDLER" -> [t EXCEPT !.error_handler = params]
              [] type = "CONTENT_MODEL" -> [t EXCEPT !.content_model = params]
              [] OTHER -> t,
          ret |-> "OK"]

\* What hubbub_tokeniser_run returns.
RunReturns(t) == IF t = NullTokeniser THEN "BADPARM" ELSE "OK"

(***************************************************************************)
(* Parse errors                                                            *)
(***************************************************************************)
\* A failed match of DOCTYPE, a character that cannot follow `</`, and the
\* end of the input inside a tag, a comment and a doctype.
MalformedDocs ==
    { Bytes(<<"<", "!", "D", "O", "C", "T", "Y", "P", "R", ">">>),
      Bytes(<<"<", "/", " ", "x", ">">>),
      Bytes(<<"<", "p", " ">>),
      Bytes(<<"<", "!", "-", "-", "x">>),
      Bytes(<<"<", "!", "D", "O", "C", "T", "Y", "P", "E", " ", "x">>) }

InitErrors == InitWith(MalformedDocs, {"PCDATA"}, {"RECORD"}, {0, 1})

\* The embedder registers its error handler before it supplies the document.
SetErrorHandler ==
    /\ ~cont /\ inp.buf = <<>> /\ ~inp.eof
    /\ tok.error_handler = "NULL"
    /\ tok' = hubbub_tokeniser_setopt(tok, "ERROR_HANDLER", "REPORT").tok
    /\ last' = [Called("setopt") EXCEPT !.cont = FALSE]
    /\ UNCHANGED <<inp, out, cont, pending, orig, cm0, chunk, opts, tb>>

NextErrors ==
    \/ SetErrorHandler
    \/ FeedRun
    \/ EofRun
    \/ RunData
    \/ RunTagOpen
    \/ RunCloseTagOpen
    \/ RunTagName
    \/ RunBeforeAttributeName
    \/ RunBogusComment
    \/ RunMarkupDeclarationOpen
    \/ RunCommentStart
    \/ RunComment
    \/ RunMatchDoctype
    \/ RunDoctype
    \/ RunBeforeDoctypeName
    \/ RunDoctypeName

SpecErrors == InitErrors /\ [][NextErrors]_vars

\* The calls of the error handler among the calls the embedder received.
ErrorReports == {i \in 1..Len(out) : out[i].type = "ERROR"}

\* C18: with an error handler registered, a malformed document is
\* tokenised to its end and the error handler has been called.
C18_ParseErrorsReported ==
    (Finished /\ tok.error_handler # "NULL") =>
        /\ out[Len(out)].type = "EOF"
        /\ ErrorReports # {}

(***************************************************************************)
(* Calls with bad parameters                                               *)
(***************************************************************************)
\* The parameters an embedder passes with an option type.
OptParams(type) ==
    CASE type = "TOKEN_HANDLER" -> {"RECORD"}
      [] type = "BUFFER_HANDLER" -> {"BUFFER"}
      [] type = "ERROR_HANDLER" -> {"REPORT"}
      [] type = "CONTENT_MODEL" -> {"PCDATA", "PLAINTEXT"}
      [] OTHER -> {"RECORD"}

\* A call of hubbub_tokeniser_setopt between two calls of run(), with a
\* null or the real tokeniser, a defined option type or another value, and
\* null or real parameters.
CallSetopt ==
    /\ ~cont /\ ~tok.aborted /\ ~inp.eof
    /\ opts < MaxSetopt
    /\ \E null \in BOOLEAN, type \in OptTypes \cup {"UNDEFINED"} :
       \E params \in OptParams(type) \cup {"NULL"} :
            LET r == hubbub_tokeniser_setopt(IF null THEN NullTokeniser ELSE tok,
                                             type, params)
                after == IF null THEN tok ELSE r.tok
            IN  /\ tok' = after
                /\ last' = [op |-> "hubbub_tokeniser_setopt", moved |-> FALSE,
                            changed |-> after # tok, cont |-> FALSE,
                            emitted |-> 0, ret |-> r.ret,
                            bad |-> null \/ params = "NULL" \/ type \notin OptTypes]
    /\ opts' = opts + 1
    /\ UNCHANGED <<inp, out, cont, pending, orig, cm0, chunk, tb>>

\* A call of hubbub_tokeniser_run with a null tokeniser.
CallRunNull ==
    /\ ~cont /\ ~tok.aborted /\ ~inp.eof
    /\ last.op # "hubbub_tokeniser_run"
    /\ last' = [op |-> "hubbub_tokeniser_run", moved |-> FALSE,
                changed |-> FALSE, cont |-> FALSE, emitted |-> 0,
                ret |-> RunReturns(NullTokeniser), bad |-> TRUE]
    /\ UNCHANGED <<tok, inp, out, cont, pending, orig, cm0, chunk, opts, tb>>

InitApi == InitWith(ElementDocs, {"PCDATA"}, {"RECORD"}, {1})

NextApi ==
    \/ CallSetopt
    \/ CallRunNull
    \/ FeedRun
    \/ EofRun
    \/ RunData
    \/ RunTagOpen
    \/ RunCloseTagOpen
    \/ RunTagName

SpecApi == InitApi /\ [][NextApi]_vars

ApiCalled == last.op \in {"hubbub_tokeniser_setopt", "hubbub_tokeniser_run"}

\* C19: a call of setopt or run with a null tokeniser, null parameters or an
\* option type that is not defined returns the bad-parameter code and
\* leaves the tokeniser as it was.
C19_BadCallsRejected ==
    (ApiCalled /\ last.bad) => (last.ret = "BADPARM" /\ ~last.changed)

(***************************************************************************)
(* The allocator fails                                                     *)
(***************************************************************************)
AllocDocs ==
    { Bytes(<<"<", "p", " ", "a", " ", "b", ">">>),
      Bytes(<<"<", "p", " ", "a", "=", "x", " ", "b", ">">>),
      Bytes(<<"<", "p", " ", "A", ">">>) }

InitAlloc == InitWith(AllocDocs, {"PCDATA"}, {"RECORD"}, {0, 1})

\* From now on the embedder's allocator returns NULL; what a write through
\* a null pointer does is the platform's.
ExhaustMemory ==
    /\ ~cont /\ ~tok.aborted /\ ~inp.eof
    /\ tok.alloc = "OK"
    /\ \E w \in {"TRAPS", "LANDS"} :
            tok' = [tok EXCEPT !.alloc = "FAILS", !.null_write = w]
    /\ last' = [Called("exhaust") EXCEPT !.cont = FALSE]
    /\ UNCHANGED <<inp, out, cont, pending, orig, cm0, chunk, opts, tb>>

NextAlloc ==
    \/ ExhaustMemory
    \/ FeedRun
    \/ EofRun
    \/ RunData
    \/ RunTagOpen
    \/ RunTagName
    \/ RunBeforeAttributeName
    \/ RunAttributeName
    \/ RunAfterAttributeName
    \/ RunBeforeAttributeValue
    \/ RunAttributeValueUq

SpecAlloc == InitAlloc /\ [][NextAlloc]_vars

\* C20: when the allocator has failed to grow the attribute array, NULL
\* was not stored as the array, nothing was written through it and the
\* array there was is not lost.
C20_AllocationFailureHandled ==
    tok.oom.failed =>
        /\ ~tok.oom.stored_null
        /\ ~tok.oom.wrote_null
        /\ ~tok.oom.lost_array

(***************************************************************************)
(* Character data of several bytes a character                             *)
(***************************************************************************)
MaxChars == 3

\* a, e with acute accent and the euro sign, in UTF-8.
DataChars == {Bytes(<<"a">>), Utf8Encode(233), Utf8Encode(8364)}

InitUtf8 ==
    InitWith(UpTo(DataChars, MaxChars), {"PCDATA", "PLAINTEXT"}, {"RECORD"}, {0, 1})

NextUtf8 ==
    \/ FeedRun
    \/ EofRun
    \/ RunData

SpecUtf8 == InitUtf8 /\ [][NextUtf8]_vars

RECURSIVE Joined(_)
\* The texts of the tokens ts one after the other.
Joined(ts) == IF ts = <<>> THEN <<>> ELSE ts[1].text \o Joined(Tail(ts))

CharacterTokens == SelectSeq(out, LAMBDA t : t.type = "CHARACTER")

\* C21: the Character tokens of an input without `<` and `&`, one after
\* the other, are the bytes of the input, each once.
C21_CharacterSpansCoverInput ==
    Finished => Joined(CharacterTokens) = orig

(***************************************************************************)
(* The case of tag names and attribute names                               *)
(***************************************************************************)
CaseTagNames == {Bytes(<<"P">>), Bytes(<<"p", "A">>), Bytes(<<"A", "p">>)}

CaseAttrNames == {Bytes(<<"A">>), Bytes(<<"a", "B">>), Bytes(<<"B", "a">>)}

\* What follows the name of a tag: nothing, an attribute after a space or
\* a slash, two attributes, and attributes with a value.
CaseAttrs ==
    {<<>>}
        \cup Cat({Bytes(<<" ">>), Bytes(<<"/">>)}, CaseAttrNames)
        \cup Cat(Cat({Bytes(<<" ">>)}, CaseAttrNames),
                 Cat({Bytes(<<" ">>), Bytes(<<"=", "X", " ">>)}, CaseAttrNames))
        \cup Cat(Cat({Bytes(<<" ">>)}, CaseAttrNames), {Bytes(<<"=", "X">>)})

CaseDocs ==
    Cat({Bytes(<<"<">>), Bytes(<<"<", "/">>)},
        Cat(CaseTagNames, Cat(CaseAttrs, {<<>>, Bytes(<<">">>)})))

\* An element whose content is RCDATA or CDATA, and its end tag in
\* another case, with an attribute.
CaseCloseDocs ==
    { Bytes(<<"<">>) \o n \o Bytes(<<">", "a", "<", "/">>) \o m \o rest :
        n \in CaseTagNames,
        m \in {Bytes(<<"P">>), Bytes(<<"p">>), Bytes(<<"P", "a">>), Bytes(<<"a", "P">>)},
        rest \in {Bytes(<<">">>), Bytes(<<" ", "A", ">">>)} }

InitCase ==
    \/ InitWith(CaseDocs, {"PCDATA"}, {"RECORD"}, {0, 1})
    \/ InitWith(CaseCloseDocs, {"PCDATA"}, {"RCDATA", "CDATA"}, {0, 1})

NextCase ==
    \/ FeedRun
    \/ EofRun
    \/ RunData
    \/ RunTagOpen
    \/ RunCloseTagOpen
    \/ RunCloseTagMatch
    \/ RunTagName
    \/ RunBeforeAttributeName
    \/ RunAttributeName
    \/ RunAfterAttributeName
    \/ RunBeforeAttributeValue
    \/ RunAttributeValueUq

SpecCase == InitCase /\ [][NextCase]_vars

HasCapital(bs) == \E i \in 1..Len(bs) : bs[i] >= Ch("A") /\ bs[i] <= Ch("Z")

\* C22: no name of a tag token and no name of an attribute of a tag token
\* holds a capital letter A-Z.
C22_NamesInLowerCase ==
    \A t \in TagTokens :
        /\ ~HasCapital(out[t].text)
        /\ \A i \in 1..Len(out[t].attrs) : ~HasCapital(out[t].attrs[i].name)
        /\ \A i \in 1..Len(out[t].given) : ~HasCapital(out[t].given[i].name)

\* An end tag written in capitals was accepted by close-tag matching and
\* has an attribute written in capitals.
C22_MatchedEndTagCase ==
    /\ Finished
    /\ orig = Bytes(<<"<", "p", "A", ">", "a", "<", "/", "P", "a", " ", "A", ">">>)
    /\ tok.token_handler = "RCDATA"
    /\ \E t \in TagTokens :
            /\ out[t].type = "END_TAG"
            /\ out[t].text = Bytes(<<"p", "a">>)
            /\ Len(out[t].attrs) = 1

(***************************************************************************)
(* The treebuilder.  Its insertion modes "in caption" and "in foreign      *)
(* content" are translated from in_caption.c and in_foreign_content.c; the *)
(* element stack, the list of active formatting elements, the dispatcher   *)
(* and the modes "in body" and "in table" follow the treebuilder contract. *)
(***************************************************************************)

\* The nodes the tree handler may create during one parse.
MaxNodes == 5

\* Iterations of the dispatcher on one token.
MaxReprocess == 2

NoToken == [type |-> "NONE", name |-> "", self_closing |-> FALSE]

StartTag(name, sc) ==
    [type |-> "START_TAG", name |-> name, self_closing |-> sc]

EndTag(name) == [type |-> "END_TAG", name |-> name, self_closing |-> FALSE]

PlainToken(type) == [type |-> type, name |-> "", self_closing |-> FALSE]

\* element_type for each recognised element name.
ElementTypes ==
    [applet |-> "APPLET", b |-> "B", big |-> "BIG",
     blockquote |-> "BLOCKQUOTE", body |-> "BODY", br |-> "BR",
     button |-> "BUTTON", caption |-> "CAPTION", center |-> "CENTER",
     code |-> "CODE", col |-> "COL", colgroup |-> "COLGROUP", dd |-> "DD",
     div |-> "DIV", dl |-> "DL", dt |-> "DT", em |-> "EM",
     embed |-> "EMBED", font |-> "FONT", h1 |-> "H1", h2 |-> "H2",
     h3 |-> "H3", h4 |-> "H4", h5 |-> "H5", h6 |-> "H6", head |-> "HEAD",
     hr |-> "HR", html |-> "HTML", i |-> "I", img |-> "IMG", li |-> "LI",
     listing |-> "LISTING", malignmark |-> "MALIGNMARK",
     marquee |-> "MARQUEE", math |-> "MATH", menu |-> "MENU",
     meta |-> "META", mglyph |-> "MGLYPH", mi |-> "MI", mn |-> "MN",
     mo |-> "MO", ms |-> "MS", mtext |-> "MTEXT", nobr |-> "NOBR",
     object |-> "OBJECT", ol |-> "OL", optgroup |-> "OPTGROUP",
     option |-> "OPTION", p |-> "P", pre |-> "PRE", rp |-> "RP",
     rt |-> "RT", ruby |-> "RUBY", s |-> "S", small |-> "SMALL",
     span |-> "SPAN", strike |-> "STRIKE", strong |-> "STRONG",
     sub |-> "SUB", sup |-> "SUP", svg |-> "SVG", table |-> "TABLE",
     tbody |-> "TBODY", td |-> "TD", tfoot |-> "TFOOT", th |-> "TH",
     thead |-> "THEAD", tr |-> "TR", tt |-> "TT", u |-> "U", ul |-> "UL",
     var |-> "VAR"]

element_type_from_name(name) ==
    IF name \in DOMAIN ElementTypes THEN ElementTypes[name] ELSE "UNKNOWN"

\* The treebuilder once the tokeniser has delivered <html> and <body>.
CreatedTreebuilder ==
    [attached |-> TRUE,
     mode |-> "IN_BODY",
     second_mode |-> "INITIAL",
     element_stack |-> <<[ns |-> "HTML", type |-> "HTML", node |-> 0],
                         [ns |-> "HTML", type |-> "BODY", node |-> 1]>>,
     current_node |-> 1,
     formatting_list |-> <<>>,
     next_node |-> 2,
     pending |-> NoToken,
     hung |-> FALSE,
     calls |-> <<>>,
     step |-> [handler |-> "create", token |-> NoToken, reprocess |-> FALSE,
               action |-> "NONE", left |-> "NONE", second |-> "NONE",
               before |-> <<>>, closed |-> FALSE, at_close |-> <<>>,
               marked |-> <<>>]]

\* element_stack[current_node]
CurrentEntry(t) == t.element_stack[t.current_node + 1]

current_node(t) == CurrentEntry(t).type

\* A call made on behalf of function fn, kept for the token in hand.
Logged(t, fn, op, node) ==
    [t EXCEPT !.calls = Append(@, [fn |-> fn, op |-> op, node |-> node])]

unref_node(t, fn, node) == Logged(t, fn, "unref_node", node)

\* Pops the current node and hands its namespace, type and node to the
\* caller; the entry at index 0 is never popped, and a failed pop writes
\* nothing to the caller's variables.
element_stack_pop(t, fn) ==
    IF t.current_node = 0
    THEN [ok |-> FALSE, t |-> Logged(t, fn, "pop_failed", -1),
          ns |-> "NONE", type |-> "NONE", node |-> -1]
    ELSE LET e == CurrentEntry(t)
             popped == [t EXCEPT
                          !.element_stack = SubSeq(@, 1, t.current_node),
                          !.current_node = @ - 1]
         IN  [ok |-> TRUE, t |-> Logged(popped, fn, "element_stack_pop", e.node),
              ns |-> e.ns, type |-> e.type, node |-> e.node]

element_stack_push(t, ns, type, node) ==
    [t EXCEPT !.element_stack = Append(@, [ns |-> ns, type |-> type,
                                           node |-> node]),
              !.current_node = @ + 1]

\* The tree handler's create_element, for a tag of namespace ns.
create_element(t, fn, ns, node) ==
    [t EXCEPT !.calls = Append(@, [fn |-> fn, op |-> "create_element",
                                   node |-> node, ns |-> ns])]

\* The tree handler creates a node for the tag and appends it to the current
\* node; the new node becomes the current node.
insert_element(t, ns, name) ==
    LET made == create_element(t, "insert_element", ns, t.next_node)
    IN  [element_stack_push(made, ns, element_type_from_name(name),
                            t.next_node)
            EXCEPT !.next_node = @ + 1]

\* As insert_element, but the node is released at once and the stack is left.
insert_element_no_push(t, ns, name) ==
    LET made == create_element(t, "insert_element_no_push", ns,
                               t.next_node)
    IN  [unref_node(made, "insert_element_no_push", t.next_node)
            EXCEPT !.next_node = @ + 1]

ImpliedEndTagTypes == {"DD", "DT", "LI", "OPTION", "OPTGROUP", "P", "RP", "RT"}

RECURSIVE close_implied_end_tags(_, _)
close_implied_end_tags(t, except) ==
    IF /\ current_node(t) \in ImpliedEndTagTypes
       /\ current_node(t) # except
    THEN LET r == element_stack_pop(t, "close_implied_end_tags")
         IN  close_implied_end_tags(
                 unref_node(r.t, "close_implied_end_tags", r.node), except)
    ELSE t

Marker == [type |-> "MARKER", node |-> -1]

insert_marker(t) == [t EXCEPT !.formatting_list = Append(@, Marker)]

\* Removes entries from the end of the list up to and including the most
\* recent marker.
RECURSIVE clear_active_formatting_list_to_marker(_)
clear_active_formatting_list_to_marker(t) ==
    IF t.formatting_list = <<>>
    THEN t
    ELSE LET n == Len(t.formatting_list)
             e == t.formatting_list[n]
             cut == [t EXCEPT !.formatting_list = SubSeq(@, 1, n - 1)]
         IN  IF e = Marker
             THEN cut
             ELSE clear_active_formatting_list_to_marker(
                      unref_node(cut, "clear_active_formatting_list_to_marker",
                                 e.node))

\* Scoping elements other than TABLE and HTML.
is_scoping_element(type) ==
    type \in {"APPLET", "BUTTON", "CAPTION", "MARQUEE", "OBJECT", "TD", "TH"}

\* Elements at which the search for the target of an end tag gives up.
SpecialTypes ==
    {"APPLET", "BODY", "BUTTON", "CAPTION", "COLGROUP", "HTML", "MARQUEE",
     "OBJECT", "P", "TABLE", "TBODY", "TD", "TH", "TR"}

TableParts ==
    {"CAPTION", "COL", "COLGROUP", "TBODY", "TD", "TFOOT", "TH", "THEAD", "TR"}

\* Index of the element an end tag of the type closes, or -1: the stack is
\* searched from index i down to the first special element.
RECURSIVE EndTagTarget(_, _, _)
EndTagTarget(t, type, i) ==
    IF i < 1
    THEN -1
    ELSE LET e == t.element_stack[i + 1]
         IN  IF e.type = type THEN i
             ELSE IF e.type \in SpecialTypes THEN -1
             ELSE EndTagTarget(t, type, i - 1)

\* Index of the topmost element of the type at or below index i, or -1.
RECURSIVE TopmostOf(_, _, _)
TopmostOf(t, type, i) ==
    IF i < 1 THEN -1
    ELSE IF t.element_stack[i + 1].type = type THEN i
    ELSE TopmostOf(t, type, i - 1)

\* Pops, and releases, every element at index i or above.
RECURSIVE PopThrough(_, _, _)
PopThrough(t, i, fn) ==
    IF t.current_node < i \/ t.current_node = 0
    THEN t
    ELSE LET r == element_stack_pop(t, fn)
         IN  PopThrough(unref_node(r.t, fn, r.node), i, fn)

\* Pops until the current node is a table or the root.
RECURSIVE clear_stack_table_context(_)
clear_stack_table_context(t) ==
    IF current_node(t) \in {"TABLE", "HTML"}
    THEN t
    ELSE LET r == element_stack_pop(t, "clear_stack_table_context")
         IN  clear_stack_table_context(
                 unref_node(r.t, "clear_stack_table_context", r.node))

\* The insertion mode the element stack calls for, found from index i down;
\* for an element outside the HTML namespace it is "in foreign content", with
\* "in body" as secondary mode.
RECURSIVE reset_insertion_mode(_, _)
reset_insertion_mode(t, i) ==
    LET e == t.element_stack[i + 1]
        mode == IF e.type = "CAPTION" THEN "IN_CAPTION"
                ELSE IF e.type = "TABLE" THEN "IN_TABLE"
                ELSE IF e.type \in {"TBODY", "TFOOT", "THEAD"}
                THEN "IN_TABLE_BODY"
                ELSE IF e.type = "BODY" \/ i = 0 THEN "IN_BODY"
                ELSE "NONE"
    IN  IF e.ns # "HTML"
        THEN [t EXCEPT !.mode = "IN_FOREIGN_CONTENT",
                       !.second_mode = "IN_BODY"]
        ELSE IF mode # "NONE"
        THEN [t EXCEPT !.mode = mode]
        ELSE reset_insertion_mode(t, i - 1)

ModeReset(t) == reset_insertion_mode(t, t.current_node)

Handled(t, reprocess) == [t |-> t, reprocess |-> reprocess]

\* Insertion mode "in body", for the tokens of this model.
handle_in_body(t, token) ==
    LET type == element_type_from_name(token.name)
        ns == IF type = "SVG" THEN "SVG" ELSE "MATHML"
        target == EndTagTarget(t, type, t.current_node)
    IN  IF token.type = "START_TAG"
        THEN IF type \in {"SVG", "MATH"}
             THEN IF token.self_closing
                  THEN Handled(insert_element_no_push(t, ns, token.name),
                               FALSE)
                  ELSE Handled(
                         [insert_element(t, ns, token.name) EXCEPT
                            !.second_mode = IF t.mode = "IN_FOREIGN_CONTENT"
                                            THEN @ ELSE t.mode,
                            !.mode = "IN_FOREIGN_CONTENT"], FALSE)
             ELSE IF type = "TABLE"
             THEN Handled([insert_element(t, "HTML", token.name)
                             EXCEPT !.mode = "IN_TABLE"], FALSE)
             ELSE IF type \in TableParts
             THEN Handled(t, FALSE)
             ELSE IF type = "B"
             THEN Handled(
                    [insert_element(t, "HTML", token.name) EXCEPT
                       !.formatting_list =
                           Append(@, [type |-> type, node |-> t.next_node])],
                    FALSE)
             ELSE Handled(insert_element(t, "HTML", token.name), FALSE)
        ELSE IF token.type = "END_TAG"
        THEN IF type = "BODY"
             THEN Handled([t EXCEPT !.mode = "AFTER_BODY"], FALSE)
             ELSE IF type \in TableParts \cup {"HTML"} \/ target = -1
             THEN Handled(t, FALSE)
             ELSE Handled(PopThrough(close_implied_end_tags(t, type), target,
                                     "handle_in_body"), FALSE)
        ELSE Handled(t, FALSE)

\* Insertion mode "in table", for the tokens of this model.
handle_in_table(t, token) ==
    LET type == element_type_from_name(token.name)
        cleared == clear_stack_table_context(t)
        closed == PopThrough(t, TopmostOf(t, "TABLE", t.current_node),
                             "handle_in_table")
    IN  IF token.type = "START_TAG" /\ type = "CAPTION"
        THEN Handled([insert_element(insert_marker(cleared), "HTML",
                                     token.name)
                        EXCEPT !.mode = "IN_CAPTION"], FALSE)
        ELSE IF token.type = "START_TAG" /\ type \in {"TBODY", "TFOOT", "THEAD"}
        THEN Handled([insert_element(cleared, "HTML", token.name)
                        EXCEPT !.mode = "IN_TABLE_BODY"], FALSE)
        ELSE IF token.type = "START_TAG" /\ type \in {"TD", "TH", "TR"}
        THEN Handled([insert_element(cleared, "HTML", "tbody")
                        EXCEPT !.mode = "IN_TABLE_BODY"], TRUE)
        ELSE IF token.type = "END_TAG" /\ type = "TABLE"
        THEN IF TopmostOf(t, "TABLE", t.current_node) = -1
             THEN Handled(t, FALSE)
             ELSE Handled(ModeReset(closed), FALSE)
        ELSE IF token.type = "END_TAG" /\ type \in TableParts \cup {"BODY", "HTML"}
        THEN Handled(t, FALSE)
        ELSE handle_in_body(t, token)

\* The token handler hands the token to the handler of the insertion mode and
\* again to the handler of the new mode for as long as one asks for it.
RECURSIVE hubbub_treebuilder_token_handler(_, _, _)

(***************************************************************************)
(* in_caption.c                                                            *)
(***************************************************************************)

\* The loop of handle_in_caption: pops until a CAPTION has been popped.  The
\* result of element_stack_pop is not acted on: after a failed pop the node
\* released is the one of the previous turn, or an indeterminate one, and
\* the loop cannot end.
RECURSIVE CaptionLoop(_, _, _)

\* A turn that does not release the node it popped.
CaptionTurnUnreleased(r, node) ==
    IF r.ok
    THEN CaptionLoop(r.t, r.type, r.node)
    ELSE [r.t EXCEPT !.hung = TRUE]

\* One turn of the loop: r is what element_stack_pop gave, node the caller's
\* variable as the turn found it.
CaptionTurn(r, node) ==
    IF r.ok
    THEN CaptionLoop(unref_node(r.t, "handle_in_caption", r.node), r.type,
                     r.node)
    ELSE [unref_node(r.t, "handle_in_caption", node) EXCEPT !.hung = TRUE]

\* The loop with the wrong element to stop at: it pops until the root element
\* has been popped.
CaptionLoopToRoot(t, otype, node) ==
    IF otype = "HTML"
    THEN t
    ELSE CaptionTurn(element_stack_pop(t, "handle_in_caption"), node)

CaptionLoop(t, otype, node) ==
    IF otype = "CAPTION"
    THEN t
    ELSE CaptionTurn(element_stack_pop(t, "handle_in_caption"), node)

\* The caption closed without a thought for the formatting elements.
CloseCaptionKeepingList(t) ==
    [CaptionLoop(close_implied_end_tags(
                     [t EXCEPT !.step.closed = TRUE,
                               !.step.at_close = t.element_stack,
                               !.step.marked = t.formatting_list],
                     "UNKNOWN"),
                 "UNKNOWN", -1)
        EXCEPT !.mode = "IN_TABLE"]

\* Lines 76-102: the caption is closed.
CloseCaption(t) ==
    LET noted == [t EXCEPT !.step.closed = TRUE,
                           !.step.at_close = t.element_stack,
                           !.step.marked = t.formatting_list]
        popped == CaptionLoop(close_implied_end_tags(noted, "UNKNOWN"),
                              "UNKNOWN", -1)
    IN  [clear_active_formatting_list_to_marker(popped)
            EXCEPT !.mode = "IN_TABLE"]

\* The tokens for which the switch of lines 30-74 sets `handled`.
CaptionHandled(token) ==
    \/ /\ token.type = "START_TAG"
       /\ element_type_from_name(token.name) \in
              {"CAPTION", "COL", "COLGROUP", "TBODY", "TD", "TFOOT", "TH",
               "THEAD", "TR"}
    \/ /\ token.type = "END_TAG"
       /\ element_type_from_name(token.name) \in {"CAPTION", "TABLE"}

\* The list of line 55 without BODY and HTML: their end tags are processed
\* as "in body".
CaptionIgnoredTableParts(token) ==
    /\ token.type = "END_TAG"
    /\ element_type_from_name(token.name) \in
           {"COL", "COLGROUP", "TBODY", "TD", "TFOOT", "TH", "THEAD", "TR"}

\* The end tags the switch passes over.
CaptionIgnored(token) ==
    /\ token.type = "END_TAG"
    /\ element_type_from_name(token.name) \in
           {"BODY", "COL", "COLGROUP", "HTML", "TBODY", "TD", "TFOOT", "TH",
            "THEAD", "TR"}

\* The switch of lines 30-74: every other token is processed as "in body",
\* and what handle_in_body returns is dropped.
CaptionSwitch(t, token) ==
    IF CaptionHandled(token) \/ CaptionIgnored(token)
    THEN t
    ELSE handle_in_body(t, token).t

\* Line 76.
CaptionClose(t, closing) == IF closing THEN CloseCaption(t) ELSE t

handle_in_caption(t, token) ==
    LET reprocess == FALSE
    IN  Handled(CaptionClose(CaptionSwitch(t, token),
                             CaptionHandled(token) \/ reprocess),
                reprocess)

(***************************************************************************)
(* in_foreign_content.c                                                    *)
(***************************************************************************)

\* The loop of element_in_scope_in_non_html_ns, at index node.
RECURSIVE ScopeLoop(_, _)
ScopeLoop(t, node) ==
    IF node > 0
    THEN LET node_type == t.element_stack[node + 1].type
         IN  IF node_type = "TABLE" \/ is_scoping_element(node_type)
             THEN FALSE
             ELSE IF t.element_stack[node + 1].ns # "HTML"
             THEN TRUE
             ELSE ScopeLoop(t, node - 1)
    ELSE FALSE

element_in_scope_in_non_html_ns(t) == ScopeLoop(t, t.current_node)

\* Lines 61-68, on the treebuilder as the token handler left it.
SecondaryLeft(t) ==
    [t EXCEPT !.step.left = t.mode,
              !.step.second = t.second_mode,
              !.mode = IF t.mode = t.second_mode
                       THEN "IN_FOREIGN_CONTENT" ELSE @]

SecondarySettled(t) ==
    IF t.mode = "IN_FOREIGN_CONTENT" /\ ~element_in_scope_in_non_html_ns(t)
    THEN [t EXCEPT !.mode = t.second_mode]
    ELSE t

process_as_in_secondary(t, token) ==
    SecondarySettled(SecondaryLeft(
        hubbub_treebuilder_token_handler([t EXCEPT !.mode = t.second_mode],
                                         token, MaxReprocess)))

\* The loop of foreign_break_out.  The result of element_stack_pop is not
\* looked at: after a failed pop the node released is indeterminate and the
\* loop cannot end.
\* An `if` in place of the `while`: one foreign element is popped at most.
BreakOutOnce(t) ==
    IF CurrentEntry(t).ns # "HTML"
    THEN unref_node(element_stack_pop(t, "foreign_break_out").t,
                    "foreign_break_out", CurrentEntry(t).node)
    ELSE t

RECURSIVE BreakOutLoop(_)

BreakOutTurn(r) ==
    IF r.ok
    THEN BreakOutLoop(unref_node(r.t, "foreign_break_out", r.node))
    ELSE [unref_node(r.t, "foreign_break_out", -1) EXCEPT !.hung = TRUE]

BreakOutLoop(t) ==
    IF CurrentEntry(t).ns # "HTML"
    THEN BreakOutTurn(element_stack_pop(t, "foreign_break_out"))
    ELSE t

\* Line 93.
SecondMode(t) == [t EXCEPT !.mode = t.second_mode]

foreign_break_out(t) == SecondMode(BreakOutLoop(t))

\* The start tags that belong to HTML alone (lines 136-151).
BreakOutTypes ==
    {"B", "BIG", "BLOCKQUOTE", "BODY", "BR", "CENTER", "CODE", "DD", "DIV",
     "DL", "DT", "EM", "EMBED", "FONT", "H1", "H2", "H3", "H4", "H5", "H6",
     "HEAD", "HR", "I", "IMG", "LI", "LISTING", "MENU", "META", "NOBR", "OL",
     "P", "PRE", "RUBY", "S", "SMALL", "SPAN", "STRONG", "STRIKE", "SUB",
     "SUP", "TABLE", "TT", "U", "UL", "VAR"}

\* The condition without its test of the tag: mglyph and malignmark too are
\* left to the secondary mode.
InSecondaryAnyTag(cur_node_ns, cur_node, type) ==
    \/ cur_node_ns = "HTML"
    \/ /\ cur_node_ns = "MATHML"
       /\ cur_node \in {"MI", "MO", "MN", "MS", "MTEXT"}

\* The condition of line 129 on the current node and the type of the tag.
InSecondary(cur_node_ns, cur_node, type) ==
    \/ cur_node_ns = "HTML"
    \/ /\ cur_node_ns = "MATHML"
       /\ type # "MGLYPH" /\ type # "MALIGNMARK"
       /\ cur_node \in {"MI", "MO", "MN", "MS", "MTEXT"}

\* The case without line 159: the tag keeps the namespace the tokeniser gave
\* it, which is HTML.
ForeignStartTagInHtml(t, token) ==
    LET cur_node_ns == CurrentEntry(t).ns
        cur_node == current_node(t)
        type == element_type_from_name(token.name)
    IN  IF InSecondary(cur_node_ns, cur_node, type)
        THEN process_as_in_secondary(
                 [t EXCEPT !.step.action = "process_as_in_secondary"], token)
        ELSE IF type \in BreakOutTypes
        THEN foreign_break_out(
                 [t EXCEPT !.step.action = "foreign_break_out"])
        ELSE IF token.self_closing
        THEN insert_element_no_push(
                 [t EXCEPT !.step.action = "insert_element_no_push"],
                 "HTML", token.name)
        ELSE insert_element([t EXCEPT !.step.action = "insert_element"],
                            "HTML", token.name)

\* Case HUBBUB_TOKEN_START_TAG of handle_in_foreign_content.
ForeignStartTag(t, token) ==
    LET cur_node_ns == CurrentEntry(t).ns
        cur_node == current_node(t)
        type == element_type_from_name(token.name)
    IN  IF InSecondary(cur_node_ns, cur_node, type)
        THEN process_as_in_secondary(
                 [t EXCEPT !.step.action = "process_as_in_secondary"], token)
        ELSE IF type \in BreakOutTypes
        THEN foreign_break_out(
                 [t EXCEPT !.step.action = "foreign_break_out"])
        ELSE IF token.self_closing
        THEN insert_element_no_push(
                 [t EXCEPT !.step.action = "insert_element_no_push"],
                 cur_node_ns, token.name)
        ELSE insert_element([t EXCEPT !.step.action = "insert_element"],
                            cur_node_ns, token.name)

handle_in_foreign_content(t, token) ==
    LET reprocess == FALSE
    IN  Handled(
          CASE token.type = "CHARACTER" ->
                 Logged([t EXCEPT !.step.action = "append_text"],
                        "handle_in_foreign_content", "append_text",
                        CurrentEntry(t).node)
            [] token.type = "COMMENT" ->
                 Logged([t EXCEPT !.step.action = "process_comment_append"],
                        "handle_in_foreign_content", "process_comment_append",
                        CurrentEntry(t).node)
            [] token.type = "DOCTYPE" -> t
            [] token.type = "START_TAG" -> ForeignStartTag(t, token)
            [] token.type = "END_TAG" ->
                 process_as_in_secondary(
                     [t EXCEPT !.step.action = "process_as_in_secondary"],
                     token)
            [] token.type = "EOF" ->
                 foreign_break_out(
                     [t EXCEPT !.step.action = "foreign_break_out"]),
          reprocess)

\* The dispatcher.  A mode whose handler is outside this model keeps the
\* token pending.
DispatchToken(t, token) ==
    CASE t.mode = "IN_BODY" -> handle_in_body(t, token)
      [] t.mode = "IN_TABLE" -> handle_in_table(t, token)
      [] t.mode = "IN_CAPTION" -> handle_in_caption(t, token)
      [] t.mode = "IN_FOREIGN_CONTENT" -> handle_in_foreign_content(t, token)
      [] OTHER -> Handled([t EXCEPT !.pending = token], FALSE)

Reprocessed(r, token, fuel) ==
    IF r.reprocess /\ fuel > 0
    THEN hubbub_treebuilder_token_handler(r.t, token, fuel - 1)
    ELSE r.t

hubbub_treebuilder_token_handler(t, token, fuel) ==
    Reprocessed(DispatchToken(t, token), token, fuel)

(***************************************************************************)
(* The treebuilder at work: one action for each insertion mode's handler,  *)
(* called by the token handler with the next token or the one to reprocess *)
(***************************************************************************)

TreeTokens ==
    {StartTag(n, FALSE) : n \in {"svg", "math", "mi", "mglyph", "caption",
                                 "table", "p", "b", "tr", "g"}}
        \cup {StartTag("g", TRUE)}
        \cup {EndTag(n) : n \in {"caption", "table", "p", "body", "svg", "tr"}}
        \cup {PlainToken(type) :
                type \in {"CHARACTER", "COMMENT", "DOCTYPE", "EOF"}}

TokensInHand == IF tb.pending # NoToken THEN {tb.pending} ELSE TreeTokens

\* The treebuilder as the handler named finds it when the token arrives.
Begin(t, handler, token) ==
    [t EXCEPT !.calls = <<>>,
              !.pending = NoToken,
              !.step = [handler |-> handler, token |-> token,
                        reprocess |-> FALSE, action |-> "NONE",
                        left |-> "NONE", second |-> "NONE",
                        before |-> t.element_stack, closed |-> FALSE,
                        at_close |-> <<>>, marked |-> <<>>]]

\* The handler gave r for the token.
Deliver(r, token) ==
    /\ r.t.next_node <= MaxNodes
    /\ tb' = [r.t EXCEPT !.pending = IF r.reprocess THEN token ELSE @,
                         !.step.reprocess = r.reprocess]
    /\ UNCHANGED <<tok, inp, out, cont, pending, orig, cm0, chunk, opts, last>>

Dispatching(mode) == tb.attached /\ ~tb.hung /\ tb.mode = mode

RunInBody ==
    /\ Dispatching("IN_BODY")
    /\ \E token \in TokensInHand :
          Deliver(handle_in_body(Begin(tb, "handle_in_body", token), token),
                  token)

RunInTable ==
    /\ Dispatching("IN_TABLE")
    /\ \E token \in TokensInHand :
          Deliver(handle_in_table(Begin(tb, "handle_in_table", token), token),
                  token)

RunInCaption ==
    /\ Dispatching("IN_CAPTION")
    /\ \E token \in TokensInHand :
          Deliver(handle_in_caption(Begin(tb, "handle_in_caption", token),
                                    token), token)

RunInForeignContent ==
    /\ Dispatching("IN_FOREIGN_CONTENT")
    /\ \E token \in TokensInHand :
          Deliver(handle_in_foreign_content(
                      Begin(tb, "handle_in_foreign_content", token), token),
                  token)

InitTree ==
    /\ tb = CreatedTreebuilder
    /\ orig = <<>>
    /\ pending = <<>>
    /\ cm0 = "PCDATA"
    /\ chunk = 0
    /\ opts = 0
    /\ tok = CreatedTokeniser("PCDATA", "RECORD")
    /\ inp = EmptyStream
    /\ out = <<>>
    /\ cont = FALSE
    /\ last = [op |-> "create", moved |-> FALSE, changed |-> FALSE,
               cont |-> FALSE, emitted |-> 0]

NextTree ==
    \/ RunInBody
    \/ RunInTable
    \/ RunInCaption
    \/ RunInForeignContent

SpecTree == InitTree /\ [][NextTree]_vars

(***************************************************************************)
(* Breaking out of foreign content                                         *)
(***************************************************************************)

\* handle_in_foreign_content has just returned.
ForeignReturned == tb.attached /\ tb.step.handler = "handle_in_foreign_content"

\* handle_in_foreign_content has just broken out of foreign content.
BrokeOut == ForeignReturned /\ tb.step.action = "foreign_break_out"

\* C23: after handle_in_foreign_content has broken out of foreign content,
\* for a start tag that belongs to HTML or for the end of input, it returns
\* true and the token handler holds the same token to be processed again, in
\* the secondary insertion mode.
C23_BreakOutReprocesses ==
    BrokeOut =>
        /\ tb.step.reprocess
        /\ tb.pending = tb.step.token
        /\ tb.mode = tb.second_mode

\* Index in the stack of the topmost element in the HTML namespace.
TopmostHtml(stack) ==
    CHOOSE k \in 1..Len(stack) :
        /\ stack[k].ns = "HTML"
        /\ \A j \in (k + 1)..Len(stack) : stack[j].ns # "HTML"

\* The nodes function fn applied op to while the last token was handled.
NodesOf(fn, op) ==
    LET made == SelectSeq(tb.calls, LAMBDA c : c.fn = fn /\ c.op = op)
    IN  [i \in 1..Len(made) |-> made[i].node]

\* The nodes of the entries of the stack above index k, the topmost first.
NodesAbove(stack, k) ==
    [i \in 1..(Len(stack) - k) |-> stack[Len(stack) + 1 - i].node]

\* C24: when foreign_break_out has run, the elements that were above the
\* topmost element in the HTML namespace have been popped, each one released,
\* and no other; the current node is in the HTML namespace and the insertion
\* mode is the secondary insertion mode.
C24_BreakOutStopsAtHtml ==
    BrokeOut =>
        LET k == TopmostHtml(tb.step.before)
        IN  /\ tb.element_stack = SubSeq(tb.step.before, 1, k)
            /\ tb.current_node = k - 1
            /\ CurrentEntry(tb).ns = "HTML"
            /\ NodesOf("foreign_break_out", "element_stack_pop")
                   = NodesAbove(tb.step.before, k)
            /\ tb.mode = tb.second_mode

\* A break-out that pops two foreign elements.
C24_TwoForeignPopped ==
    /\ BrokeOut
    /\ Len(tb.step.before) = Len(tb.element_stack) + 2

(***************************************************************************)
(* Start tags in foreign content                                           *)
(***************************************************************************)

\* The names of the start tags that belong to HTML alone.
HtmlOnlyNames ==
    {"b", "big", "blockquote", "body", "br", "center", "code", "dd", "div",
     "dl", "dt", "em", "embed", "font", "h1", "h2", "h3", "h4", "h5", "h6",
     "head", "hr", "i", "img", "li", "listing", "menu", "meta", "nobr", "ol",
     "p", "pre", "ruby", "s", "small", "span", "strong", "strike", "sub",
     "sup", "table", "tt", "u", "ul", "var"}

\* What a start tag of the name calls for when cur is the current node.
StartTagRule(cur, name) ==
    IF \/ cur.ns = "HTML"
       \/ /\ cur.ns = "MATHML"
          /\ cur.type \in {"MI", "MO", "MN", "MS", "MTEXT"}
          /\ name \notin {"mglyph", "malignmark"}
    THEN "process_as_in_secondary"
    ELSE IF name \in HtmlOnlyNames
    THEN "foreign_break_out"
    ELSE "insert"

\* What handle_in_foreign_content did with the start tag, by its effects.
StartTagDone ==
    LET before == tb.step.before
        cur == before[Len(before)]
        token == tb.step.token
    IN  CASE tb.step.action = "process_as_in_secondary" ->
               /\ tb.step.left # "NONE"
               /\ NodesOf("foreign_break_out", "element_stack_pop") = <<>>
          [] tb.step.action = "foreign_break_out" ->
               /\ tb.step.left = "NONE"
               /\ NodesOf("foreign_break_out", "element_stack_pop") # <<>>
               /\ NodesOf("insert_element", "create_element") = <<>>
          [] tb.step.action = "insert_element" ->
               /\ tb.step.left = "NONE"
               /\ ~token.self_closing
               /\ tb.element_stack =
                      Append(before,
                             [ns |-> cur.ns,
                              type |-> element_type_from_name(token.name),
                              node |-> tb.next_node - 1])
               /\ tb.mode = "IN_FOREIGN_CONTENT"
          [] tb.step.action = "insert_element_no_push" ->
               /\ tb.step.left = "NONE"
               /\ token.self_closing
               /\ tb.element_stack = before
               /\ NodesOf("insert_element_no_push", "create_element")
                      = <<tb.next_node - 1>>
               /\ tb.mode = "IN_FOREIGN_CONTENT"
          [] OTHER -> FALSE

ForeignStartTagDone == ForeignReturned /\ tb.step.token.type = "START_TAG"

ScopingElements ==
    {"APPLET", "CAPTION", "HTML", "TABLE", "TD", "TH", "BUTTON", "MARQUEE",
     "OBJECT"}

\* Some element outside the HTML namespace is in scope: no scoping element
\* lies between the current node and it.
ForeignInScope(stack) ==
    \E i \in 1..Len(stack) :
        /\ stack[i].ns # "HTML"
        /\ \A j \in (i + 1)..Len(stack) : stack[j].type \notin ScopingElements

\* handle_in_foreign_content has just left a token to the secondary mode.
Delegated == ForeignReturned /\ tb.step.left # "NONE"

\* The secondary handler left the mode where it was, or in foreign content.
LeftInPlace == tb.step.left \in {tb.step.second, "IN_FOREIGN_CONTENT"}

\* C26: after a token of "in foreign content" has been left to the secondary
\* mode, the mode is IN_FOREIGN_CONTENT exactly when the secondary handler
\* left the mode at the secondary mode (or at IN_FOREIGN_CONTENT) and an
\* element outside the HTML namespace is in scope; a mode the handler switched
\* to stays; with no foreign element in scope the mode is the secondary mode.
C26_ModeAfterSecondary ==
    Delegated =>
        /\ tb.mode = "IN_FOREIGN_CONTENT"
               <=> (LeftInPlace /\ ForeignInScope(tb.element_stack))
        /\ ~LeftInPlace => tb.mode = tb.step.left
        /\ (LeftInPlace /\ ~ForeignInScope(tb.element_stack))
               => tb.mode = tb.step.second

(***************************************************************************)
(* Popped elements and their nodes                                         *)
(***************************************************************************)

\* The calls function fn made while the last token was handled.
CallsOf(fn) == SelectSeq(tb.calls, LAMBDA c : c.fn = fn)

\* Every call is a pop that succeeded followed by the release of the node it
\* gave, and no node is popped twice.
PopsReleased(calls) ==
    /\ Len(calls) % 2 = 0
    /\ \A i \in 1..Len(calls) :
          IF i % 2 = 1
          THEN /\ calls[i].op = "element_stack_pop"
               /\ calls[i + 1].op = "unref_node"
               /\ calls[i + 1].node = calls[i].node
          ELSE \A j \in 1..Len(calls) :
                  (j % 2 = 0 /\ calls[j].node = calls[i].node) => j = i

NoPopAtBottom ==
    tb.attached =>
        /\ ~tb.hung
        /\ \A i \in 1..Len(tb.calls) : tb.calls[i].op # "pop_failed"

(***************************************************************************)
(* The bottom of the element stack                                         *)
(***************************************************************************)

\* handle_in_caption has just returned.
CaptionReturned == tb.attached /\ tb.step.handler = "handle_in_caption"

C29_CaptionClosedAndReprocessed ==
    CaptionReturned =>
        LET token == tb.step.token
            closing ==
                \/ /\ token.type = "START_TAG"
                   /\ token.name \in {"caption", "col", "colgroup", "tbody",
                                      "td", "tfoot", "th", "thead", "tr"}
                \/ token.type = "END_TAG" /\ token.name = "table"
        IN  /\ closing =>
                /\ tb.step.closed
                /\ tb.mode = "IN_TABLE"
                /\ tb.step.reprocess
                /\ tb.pending = token
            /\ token = EndTag("caption") =>
                /\ tb.step.closed
                /\ tb.mode = "IN_TABLE"
                /\ ~tb.step.reprocess
                /\ tb.pending = NoToken

\* Index in the stack of the topmost element of type CAPTION, 0 for none.
TopmostCaption(stack) ==
    LET at == {i \in 1..Len(stack) : stack[i].type = "CAPTION"}
    IN  IF at = {} THEN 0 ELSE CHOOSE i \in at : \A j \in at : j <= i

\* The list without its most recent marker and the entries after it.
ClearedToMarker(list) ==
    LET at == {i \in 1..Len(list) : list[i] = Marker}
    IN  IF at = {}
        THEN <<>>
        ELSE SubSeq(list, 1, (CHOOSE i \in at : \A j \in at : j <= i) - 1)

\* C30: when handle_in_caption closes the caption, with a caption on the
\* stack, the elements from the top of the stack down to the topmost caption,
\* the caption included, are popped and no other; the list of active
\* formatting elements loses its most recent marker and the entries after
\* it; the insertion mode is IN_TABLE.
C30_CaptionClosed ==
    (tb.attached /\ tb.step.closed /\ TopmostCaption(tb.step.at_close) > 0) =>
        /\ tb.element_stack =
               SubSeq(tb.step.at_close, 1,
                      TopmostCaption(tb.step.at_close) - 1)
        /\ tb.formatting_list = ClearedToMarker(tb.step.marked)
        /\ tb.mode = "IN_TABLE"

\* A caption closed over a formatting element opened inside it.
C30_FormattingInCaption ==
    /\ tb.attached
    /\ tb.step.closed
    /\ Len(tb.step.marked) >= 2
    /\ tb.step.marked[Len(tb.step.marked)] # Marker
    /\ Len(tb.step.at_close) > TopmostCaption(tb.step.at_close)
    /\ TopmostCaption(tb.step.at_close) > 0

(***************************************************************************)
(* handle_in_caption on a stack without a caption                          *)
(***************************************************************************)

\* Elements below the current node when a fragment is parsed.
MaxContext == 2

ContextTypes == {"P", "B", "CAPTION", "TABLE"}

ContextStacks ==
    UNION {[1..n -> ContextTypes] : n \in 0..MaxContext}

\* The treebuilder in mode "in caption" on the root element followed by
\* elements of the types given: the state the "fragment case" of line 81
\* is about when none of them is a caption.  The tree handler has two nodes
\* left to create.
CaptionContext(types) ==
    [CreatedTreebuilder EXCEPT
       !.mode = "IN_CAPTION",
       !.element_stack =
           [i \in 1..(Len(types) + 1) |->
               [ns |-> "HTML",
                type |-> IF i = 1 THEN "HTML" ELSE types[i - 1],
                node |-> i - 1]],
       !.current_node = Len(types),
       !.next_node = MaxNodes - 2]

InitContext ==
    /\ tb \in {CaptionContext(types) : types \in ContextStacks}
    /\ orig = <<>>
    /\ pending = <<>>
    /\ cm0 = "PCDATA"
    /\ chunk = 0
    /\ opts = 0
    /\ tok = CreatedTokeniser("PCDATA", "RECORD")
    /\ inp = EmptyStream
    /\ out = <<>>
    /\ cont = FALSE
    /\ last = [op |-> "create", moved |-> FALSE, changed |-> FALSE,
               cont |-> FALSE, emitted |-> 0]

SpecContext == InitContext /\ [][NextTree]_vars

HasCaption(stack) == \E i \in 1..Len(stack) : stack[i].type = "CAPTION"

\* C31: handle_in_caption returns for every token and every element stack;
\* on a stack without a caption element a token that closes the caption is
\* ignored: the loop ends, the stack is as it was and so is the mode.
C31_CaptionlessCloseIgnored ==
    (/\ tb.attached
     /\ tb.step.handler = "handle_in_caption"
     /\ CaptionHandled(tb.step.token)
     /\ ~HasCaption(tb.step.before))
        => /\ ~tb.hung
           /\ tb.element_stack = tb.step.before
           /\ tb.mode = "IN_CAPTION"
(***************************************************************************)
(* The scope test of "in foreign content"                                  *)
(***************************************************************************)

\* C32: element_in_scope_in_non_html_ns is true exactly when an element
\* outside the HTML namespace is in scope, the current node and an element
\* of a scoping type included: checked where process_as_in_secondary has
\* just called it on the element stack.
C32_ScopeTestFindsForeign ==
    (Delegated /\ LeftInPlace)
        => (element_in_scope_in_non_html_ns(tb)
                <=> ForeignInScope(tb.element_stack))
(***************************************************************************)
(* Numeric references beyond the accumulator                               *)
(***************************************************************************)

RECURSIVE DigitsMagnitude(_)
\* The number the first n digits spell, as a number and not as a uint32_t;
\* every value above MaxCodepoint is given as MaxCodepoint + 1.
DigitsMagnitude(n) ==
    IF n = 0 THEN 0
    ELSE LET v == DigitsMagnitude(n - 1) * RefBase
                      + DigitOf(AfterAmp[FirstDigitAt + n - 1])
         IN  IF v > MaxCodepoint THEN MaxCodepoint + 1 ELSE v

\* C33: the accumulator does not wrap: digits that spell a number above
\* 0x10FFFF, 2^32 and more included, are replaced by U+FFFD.
C33_BeyondRangeIsReplacementChar ==
    (/\ IsNumericRef
     /\ inp.replaced # <<>>
     /\ DigitsMagnitude(DigitCount) > MaxCodepoint)
        => inp.replaced[1].cp = ReplacementChar
(***************************************************************************)
(* Comments and the dashes in them                                         *)
(***************************************************************************)
MaxComment == 3

CommentAlphabet == {Bytes(<<c>>) : c \in {"a", "b", "-", ">"}}

CommentOpen == Bytes(<<"<", "!", "-", "-">>)
CommentEnd == Bytes(<<"-", "-", ">">>)

\* `<!--X-->` for every X of the alphabet, followed by nothing or a letter.
CommentDocs ==
    Cat(Cat({CommentOpen}, UpTo(CommentAlphabet, MaxComment)),
        Cat({CommentEnd}, {<<>>, Bytes(<<"c">>)}))

InitComment == InitWith(CommentDocs, {"PCDATA"}, {"RECORD"}, {0, 1})

NextComment ==
    \/ FeedRun
    \/ EofRun
    \/ RunData
    \/ RunTagOpen
    \/ RunMarkupDeclarationOpen
    \/ RunCommentStart
    \/ RunComment
    \/ RunCommentDash
    \/ RunCommentEnd

SpecComment == InitComment /\ [][NextComment]_vars

\* The text between `<!--` and the first `-->` of the document.
CommentEndAt == FirstAt(SubSeq(orig, 5, Len(orig)), CommentEnd)
CommentBody == SubSeq(orig, 5, 3 + CommentEndAt)

NoDoubleDash(text) ==
    \A i \in 1..(Len(text) - 1) : ~(text[i] = Ch("-") /\ text[i + 1] = Ch("-"))

EndsWithDash(text) == text # <<>> /\ text[Len(text)] = Ch("-")

\* X has neither `--` in it nor `-` at its end.
PlainBody == NoDoubleDash(CommentBody) /\ ~EndsWithDash(CommentBody)

\* C34: the Comment token of `<!--X-->`, X without `--` and not ending in
\* `-`, spans exactly X: it starts at the first byte of X and has its length.
C34_CommentSpanIsBody ==
    (PlainBody /\ out # <<>>) =>
        /\ out[1].type = "COMMENT"
        /\ out[1].text = CommentBody
        /\ out[1].len = Len(CommentBody)
        /\ CommentBody # <<>> => out[1].off = 4
(***************************************************************************)
(* The name of a doctype without a name                                    *)
(***************************************************************************)

\* C35: a doctype token emitted before any name was read (`<!DOCTYPE>`, or
\* `<!DOCTYPE` at the end of the stream) has an empty name, whatever
\* doctypes came before it.
C35_NamelessDoctypeHasEmptyName ==
    \A i \in 1..Len(out) :
        (out[i].type = "DOCTYPE" /\ out[i].by = "BEFORE_DOCTYPE_NAME")
            => /\ out[i].len = 0
               /\ out[i].text = <<>>
(***************************************************************************)
(* Start tags that close themselves                                        *)
(***************************************************************************)

\* `<br`, attributes or none, a solidus or none, `>`, text or none.
SlashDocs ==
    Cat(Cat({Bytes(<<"<", "b", "r">>), Bytes(<<"<", "p">>)},
            {<<>>, Bytes(<<" ">>), Bytes(<<" ", "a">>), Bytes(<<" ", "a", " ">>)}),
        Cat({<<>>, Bytes(<<"/">>), Bytes(<<"/", " ">>)},
            {Bytes(<<">">>), Bytes(<<">", "x">>)}))

InitSlash == InitWith(SlashDocs, {"PCDATA"}, {"RECORD"}, {0, 1})

NextSlash ==
    \/ FeedRun
    \/ EofRun
    \/ RunData
    \/ RunTagOpen
    \/ RunTagName
    \/ RunBeforeAttributeName
    \/ RunAttributeName
    \/ RunAfterAttributeName

SpecSlash == InitSlash /\ [][NextSlash]_vars

\* The tag of the document is written with `/` right before its `>`.
TagEndsAt == FirstAt(orig, Bytes(<<">">>))
WrittenSelfClosing == orig[TagEndsAt - 1] = Ch("/")

\* C36: a start tag is emitted with self_closing = true when it is written
\* with `/` immediately before its `>`, and with self_closing = false when
\* it is not.
C36_SolidusSetsSelfClosing ==
    (out # <<>> /\ out[1].type = "START_TAG")
        => (out[1].self_closing <=> WrittenSelfClosing)

(***************************************************************************)
(* run() called again with nothing new in the stream                       *)
(***************************************************************************)

\* run() has returned for want of data and the embedder has supplied none.
Starved == ~cont /\ ~inp.eof /\ ~tok.aborted

\* The call of run() the embedder makes now, taken to its return.
RunAgain == hubbub_tokeniser_run(Machine)

\* C37: a call of run() made while the stream has nothing new returns
\* without a token emitted and with the stream and its cursor as they were,
\* whatever the state of the tokeniser.
C37_RunWithoutDataIsNoOp ==
    Starved =>
        /\ ~RunAgain.cont
        /\ RunAgain.out = out
        /\ RunAgain.inp = inp

(***************************************************************************)
(* End tags "in caption" has no use for                                    *)
(***************************************************************************)

IgnoredEndTags ==
    {"body", "col", "colgroup", "html", "tbody", "td", "tfoot", "th",
     "thead", "tr"}

\* handle_in_caption, called for the mode IN_CAPTION, returns from one of
\* these end tags.
IgnoredInCaption ==
    /\ tb'.attached
    /\ tb'.step.handler = "handle_in_caption"
    /\ tb'.step.token.type = "END_TAG"
    /\ tb'.step.token.name \in IgnoredEndTags

\* C38: in IN_CAPTION an end tag body, col, colgroup, html, tbody, td, tfoot,
\* th, thead or tr changes neither the element stack nor the list of active
\* formatting elements nor the insertion mode, makes no call of the tree
\* handler and is not processed again.
C38_EndTagIgnoredInCaption ==
    [][IgnoredInCaption =>
          /\ tb'.element_stack = tb.element_stack
          /\ tb'.formatting_list = tb.formatting_list
          /\ tb'.mode = "IN_CAPTION" /\ tb.mode = "IN_CAPTION"
          /\ tb'.second_mode = tb.second_mode
          /\ tb'.calls = <<>>
          /\ ~tb'.step.reprocess
          /\ tb'.pending = NoToken
          /\ ~tb'.step.closed]_vars

\* </body> was ignored in a caption that holds a formatting element.
C38_BodyEndTagInCaption ==
    /\ tb.attached
    /\ tb.step.handler = "handle_in_caption"
    /\ tb.step.token = EndTag("body")
    /\ tb.mode = "IN_CAPTION"
    /\ Len(tb.formatting_list) >= 2
    /\ tb.calls = <<>>

(***************************************************************************)
(* Elements inserted in foreign content                                    *)
(***************************************************************************)

\* handle_in_foreign_content returns from a start tag it inserted itself.
InsertedInForeign ==
    /\ tb'.attached
    /\ tb'.step.handler = "handle_in_foreign_content"
    /\ tb'.step.token.type = "START_TAG"
    /\ tb'.step.action \in {"insert_element", "insert_element_no_push"}

\* The element the tree handler was asked to create for the token.
CreatedFor(t) == SelectSeq(t.calls, LAMBDA c : c.op = "create_element")

\* C39: a start tag inserted in foreign content is created in the namespace
\* of the current node; a self-closing one leaves the element stack as it
\* was, any other is pushed onto it, alone; the insertion mode and the
\* secondary mode stay.
C39_InsertedInCurrentNamespace ==
    [][InsertedInForeign =>
          /\ Len(CreatedFor(tb')) = 1
          /\ CreatedFor(tb')[1].ns = CurrentEntry(tb).ns
          /\ CreatedFor(tb')[1].ns # "HTML"
          /\ IF tb'.step.token.self_closing
             THEN tb'.element_stack = tb.element_stack
             ELSE tb'.element_stack =
                      Append(tb.element_stack,
                             [ns |-> CurrentEntry(tb).ns,
                              type |-> element_type_from_name(
                                           tb'.step.token.name),
                              node |-> CreatedFor(tb')[1].node])
          /\ tb'.mode = tb.mode /\ tb'.mode = "IN_FOREIGN_CONTENT"
          /\ tb'.second_mode = tb.second_mode]_vars

\* <g/> was inserted below an svg element and left the stack as it was.
C39_SelfClosingInSvg ==
    /\ tb.attached
    /\ tb.step.handler = "handle_in_foreign_content"
    /\ tb.step.action = "insert_element_no_push"
    /\ tb.step.token = StartTag("g", TRUE)
    /\ CurrentEntry(tb).ns = "SVG"
    /\ tb.element_stack = tb.step.before
    /\ tb.mode = "IN_FOREIGN_CONTENT"
    /\ tb.second_mode = "IN_BODY"

====
